---- MODULE Spec2Model ----
(***************************************************************************)
(* Model of the agent control core of the SmartClinic ReAct agent:        *)
(* react_agent.py (ReActAgent: intent heuristics, dispatcher, chat loop)   *)
(* and tools.py (Tools, ParameterCollector).  A Python str that the code   *)
(* searches or matches is a sequence of one-character strings, so that     *)
(* `in`, re.search, lower(), upper() and split() are computed as Python    *)
(* computes them.  Texts that are only passed along (templates, messages)  *)
(* are TLA+ strings.                                                       *)
(***************************************************************************)
EXTENDS Integers, Sequences, FiniteSets, TLC

(* ------------------------------------------------------------------ *)
(* Bounds of the model                                                *)
(* ------------------------------------------------------------------ *)
\* number of chat calls made on the one agent instance
MaxCalls == 2

(* ------------------------------------------------------------------ *)
(* Python str operations                                              *)
(* ------------------------------------------------------------------ *)
UpperLetters == <<"A","B","C","D","E","F","G","H","I","J","K","L","M","N","O","P","Q","R","S","T","U","V","W","X","Y","Z">>
LowerLetters == <<"a","b","c","d","e","f","g","h","i","j","k","l","m","n","o","p","q","r","s","t","u","v","w","x","y","z">>
Digits == {"0","1","2","3","4","5","6","7","8","9"}
Range(f) == {f[i] : i \in DOMAIN f}
\* \w of the re module
WordChars == Range(UpperLetters) \cup Range(LowerLetters) \cup Digits \cup {"_"}

\* the letter maps of str.lower() and str.upper()
ToLower == [c \in Range(UpperLetters) |-> LowerLetters[CHOOSE i \in 1..26 : UpperLetters[i] = c]]
ToUpper == [c \in Range(LowerLetters) |-> UpperLetters[CHOOSE i \in 1..26 : LowerLetters[i] = c]]
LowerChar(c) == IF c \in DOMAIN ToLower THEN ToLower[c] ELSE c
UpperChar(c) == IF c \in DOMAIN ToUpper THEN ToUpper[c] ELSE c
\* str.lower() and str.upper()
RECURSIVE lower(_)
lower(s) == IF s = <<>> THEN <<>> ELSE <<LowerChar(Head(s))>> \o lower(Tail(s))
RECURSIVE upper(_)
upper(s) == IF s = <<>> THEN <<>> ELSE <<UpperChar(Head(s))>> \o upper(Tail(s))

\* w occurs in s at position i
MatchAt(s, w, i) == i >= 1 /\ i + Len(w) - 1 <= Len(s) /\ SubSeq(s, i, i + Len(w) - 1) = w
\* Python `w in s` for str (w is never empty in the code's tables)
Contains(s, w) == \E i \in 1..Len(s) : MatchAt(s, w, i)
\* any(w in s for w in ws)
ContainsAny(s, ws) == \E w \in ws : Contains(s, w)
\* re.search of (a1|a2|..).+(b1|b2|..): an a, at least one character, a b
Gap2(s, A, B) == \E a \in A : \E i \in 1..Len(s) : MatchAt(s, a, i) /\ \E b \in B : \E j \in (i + Len(a) + 1)..Len(s) : MatchAt(s, b, j)
\* re.search of (a..).+(b..).+(c..)
Gap3(s, A, B, C) == \E a \in A : \E i \in 1..Len(s) : MatchAt(s, a, i) /\ \E b \in B : \E j \in (i + Len(a) + 1)..Len(s) : MatchAt(s, b, j) /\ \E c \in C : \E k \in (j + Len(b) + 1)..Len(s) : MatchAt(s, c, k)
\* re.search of a.?b: a, at most one character, b
Opt1(s, a, b) == \E i \in 1..Len(s) : MatchAt(s, a, i) /\ (MatchAt(s, b, i + Len(a)) \/ MatchAt(s, b, i + Len(a) + 1))
\* s ends with w
EndsWith(s, w) == Len(s) >= Len(w) /\ MatchAt(s, w, Len(s) - Len(w) + 1)

\* str.split(): the maximal runs of non-blank characters
RECURSIVE SplitFrom(_, _, _)
SplitFrom(s, i, cur) == IF i > Len(s) THEN (IF cur = <<>> THEN <<>> ELSE <<cur>>) ELSE IF s[i] = " " THEN (IF cur = <<>> THEN SplitFrom(s, i + 1, <<>>) ELSE <<cur>> \o SplitFrom(s, i + 1, <<>>)) ELSE SplitFrom(s, i + 1, Append(cur, s[i]))
split(s) == SplitFrom(s, 1, <<>>)

(* ------------------------------------------------------------------ *)
(* The utterances the model sends to chat                             *)
(* ------------------------------------------------------------------ *)
UHello == <<"H","e","l","l","o","!">>
UHowAreYou == <<"H","o","w"," ","a","r","e"," ","y","o","u","?">>
UGreetBook == <<"I"," ","w","a","n","t"," ","t","o"," ","b","o","o","k"," ","a","p","p","o","i","n","t","m","e","n","t",","," ","n","i","c","e"," ","t","o"," ","m","e","e","t"," ","y","o","u",".">>
UBookAppointment == <<"b","o","o","k"," ","a","p","p","o","i","n","t","m","e","n","t">>
UBookWalkin == <<"b","o","o","k"," ","a"," ","w","a","l","k","-","i","n">>
UFollowUp == <<"f","o","l","l","o","w"," ","u","p">>
UStatus == <<"m","y"," ","a","p","p","o","i","n","t","m","e","n","t"," ","s","t","a","t","u","s">>
USpecialties == <<"W","h","a","t"," ","s","p","e","c","i","a","l","t","i","e","s"," ","d","o"," ","y","o","u"," ","h","a","v","e","?">>
UFullList == <<"S","h","o","w"," ","m","e"," ","t","h","e"," ","f","u","l","l"," ","l","i","s","t"," ","o","f"," ","s","p","e","c","i","a","l","t","i","e","s">>
UCardiologyDoctor == <<"I"," ","n","e","e","d"," ","a"," ","c","a","r","d","i","o","l","o","g","y"," ","d","o","c","t","o","r">>
UWeather == <<"w","e","a","t","h","e","r">>
Utterances == {UHello, UHowAreYou, UGreetBook, UBookAppointment, UBookWalkin, UFollowUp, UStatus, USpecialties, UCardiologyDoctor, UWeather}
\* further utterances, given to a single call on a fresh agent
MoreUtterances == Utterances \cup {UFullList, <<"I"," ","w","a","n","t"," ","t","o"," ","b","o","o","k"," ","a","n"," ","a","p","p","o","i","n","t","m","e","n","t"," ","w","i","t","h"," ","a"," ","c","a","r","d","i","o","l","o","g","i","s","t">>, <<"d","o"," ","y","o","u"," ","h","a","v","e"," ","a"," ","w","a","l","k","-","i","n"," ","d","o","c","t","o","r">>, <<"t","o","d","a","y"," ","a","p","p","o","i","n","t","m","e","n","t">>, <<"t","o","d","a","y"," ","v","i","s","i","t">>, <<"m","y"," ","d","o","c","t","o","r"," ","w","a","s"," ","l","a","t","e">>, <<"m","y"," ","h","e","a","r","t"," ","i","s"," ","f","i","n","e">>}

(* ------------------------------------------------------------------ *)
(* Intent heuristics of ReActAgent                                    *)
(* ------------------------------------------------------------------ *)
specialty_keywords == <<<<"d","o","c","t","o","r">>, <<"s","p","e","c","i","a","l","i","s","t">>, <<"s","p","e","c","i","a","l","t","y">>, <<"s","p","e","c","i","a","l","t","i","e","s">>, <<"s","p","e","c","i","a","l","i","t","y">>, <<"s","p","e","c","i","a","l","i","t","i","e","s">>, <<"d","e","p","a","r","t","m","e","n","t">>, <<"m","e","d","i","c","a","l">>, <<"p","h","y","s","i","c","i","a","n">>, <<"p","r","a","c","t","i","t","i","o","n","e","r">>, <<"c","a","r","d","i","o">>, <<"h","e","a","r","t">>, <<"d","e","n","t","a","l">>, <<"t","e","e","t","h">>, <<"d","e","n","t","i","s","t">>, <<"n","e","u","r","o">>, <<"b","r","a","i","n">>, <<"o","r","t","h","o">>, <<"b","o","n","e">>, <<"p","e","d","i","a","t","r","i","c">>, <<"c","h","i","l","d","r","e","n">>, <<"e","m","e","r","g","e","n","c","y">>, <<"s","u","r","g","e","r","y">>>>

\* ^(hi|hello|...)[\s\W]*$
GreetingWords == {<<"h","i">>, <<"h","e","l","l","o">>, <<"h","e","y">>, <<"g","r","e","e","t","i","n","g","s">>, <<"g","o","o","d"," ","m","o","r","n","i","n","g">>, <<"g","o","o","d"," ","a","f","t","e","r","n","o","o","n">>, <<"g","o","o","d"," ","e","v","e","n","i","n","g">>}
GreetingPattern1(q) == \E g \in GreetingWords : MatchAt(q, g, 1) /\ \A k \in (Len(g) + 1)..Len(q) : q[k] \notin WordChars
\* ^how are you(\?)?$
GreetingPattern2(q) == q \in {<<"h","o","w"," ","a","r","e"," ","y","o","u">>, <<"h","o","w"," ","a","r","e"," ","y","o","u","?">>}
\* ^what'?s up(\?)?$
GreetingPattern3(q) == q \in {<<"w","h","a","t","s"," ","u","p">>, <<"w","h","a","t","'","s"," ","u","p">>, <<"w","h","a","t","s"," ","u","p","?">>, <<"w","h","a","t","'","s"," ","u","p","?">>}
\* (nice to meet you|pleased to meet you)(\.)$
GreetingPattern4(q) == EndsWith(q, <<"n","i","c","e"," ","t","o"," ","m","e","e","t"," ","y","o","u",".">>) \/ EndsWith(q, <<"p","l","e","a","s","e","d"," ","t","o"," ","m","e","e","t"," ","y","o","u",".">>)

_is_greeting(query) == LET query_lower == lower(query) IN GreetingPattern1(query_lower) \/ GreetingPattern2(query_lower) \/ GreetingPattern3(query_lower) \/ GreetingPattern4(query_lower)

GreetHowAreYou == "I'm doing well, thank you for asking! I'm here to help with questions about doctor specialties and appointments at our hospital. How can I assist you today?"
GreetHello == "Hello! I'm the SmartClinic assistant. I can help you with information about doctor specialties and appointments at our hospital. How can I assist you today?"
_get_greeting_response(query) == IF Contains(lower(query), <<"h","o","w"," ","a","r","e"," ","y","o","u">>) THEN GreetHowAreYou ELSE GreetHello

full_list_patterns(q) == \/ Gap2(q, {<<"y","e","s">>, <<"y","e","a","h">>, <<"s","u","r","e">>, <<"o","k">>, <<"o","k","a","y">>, <<"f","u","l","l">>, <<"c","o","m","p","l","e","t","e">>, <<"a","l","l">>}, {<<"l","i","s","t">>, <<"s","p","e","c","i","a","l","t","i","e","s">>, <<"s","p","e","c","i","a","l","i","t","y">>, <<"s","p","e","c","i","a","l","i","s","t","s">>})
                         \/ Gap3(q, {<<"s","h","o","w">>, <<"s","e","e">>, <<"g","i","v","e">>}, {<<"a","l","l">>, <<"f","u","l","l">>, <<"c","o","m","p","l","e","t","e">>, <<"m","o","r","e">>}, {<<"l","i","s","t">>, <<"s","p","e","c","i","a","l","t","i","e","s">>})
                         \/ Gap2(q, {<<"l","i","s","t">>, <<"s","h","o","w">>}, {<<"a","l","l">>, <<"e","v","e","r","y","t","h","i","n","g">>, <<"e","v","e","r","y">>, <<"m","o","r","e">>})
                         \/ Gap3(q, {<<"w","h","a","t">>}, {<<"a","l","l">>, <<"e","l","s","e">>, <<"o","t","h","e","r">>}, {<<"a","v","a","i","l","a","b","l","e">>, <<"h","a","v","e">>})

specialty_patterns(q) == \/ Gap2(q, {<<"d","o">>, <<"d","o","e","s">>, <<"a","r","e">>, <<"c","a","n">>, <<"h","a","v","e">>}, {<<"d","o","c","t","o","r">>, <<"s","p","e","c","i","a","l","i","s","t">>, <<"p","h","y","s","i","c","i","a","n">>})
                         \/ Gap2(q, {<<"w","h","a","t">>, <<"w","h","i","c","h">>}, {<<"s","p","e","c","i","a","l","i","s","t">>, <<"s","p","e","c","i","a","l","t","y">>, <<"d","e","p","a","r","t","m","e","n","t">>})
                         \/ Gap2(q, {<<"l","o","o","k","i","n","g"," ","f","o","r">>}, {<<"d","o","c","t","o","r">>, <<"s","p","e","c","i","a","l","i","s","t">>})
                         \/ Gap2(q, {<<"f","i","n","d">>, <<"n","e","e","d">>}, {<<"d","o","c","t","o","r">>, <<"s","p","e","c","i","a","l","i","s","t">>})
                         \/ Gap3(q, {<<"t","e","l","l">>, <<"i","n","f","o","r","m">>}, {<<"a","b","o","u","t">>, <<"y","o","u","r">>}, {<<"s","p","e","c","i","a","l","i","s","t">>, <<"s","p","e","c","i","a","l","t","y">>, <<"d","e","p","a","r","t","m","e","n","t">>})
                         \/ Gap3(q, {<<"w","h","a","t">>, <<"w","h","i","c","h">>, <<"a","n","y">>, <<"i","s">>}, {<<"d","o","c","t","o","r">>, <<"s","p","e","c","i","a","l","i","s","t">>, <<"d","e","p","a","r","t","m","e","n","t">>}, {<<"a","v","a","i","l","a","b","l","e">>, <<"h","a","v","e">>, <<"f","o","r">>, <<"t","r","e","a","t">>})

_is_specialty_query(query) ==
    LET query_lower == lower(query)
        specialty_keyword_match == \E k \in Range(specialty_keywords) : Contains(query_lower, k)
    IN IF ContainsAny(query_lower, {<<"b","o","o","k">>, <<"s","c","h","e","d","u","l","e">>, <<"a","p","p","o","i","n","t","m","e","n","t">>, <<"s","l","o","t">>, <<"v","i","s","i","t">>, <<"t","i","m","e">>}) THEN FALSE
       ELSE IF full_list_patterns(query_lower) THEN TRUE
       ELSE IF specialty_keyword_match /\ specialty_patterns(query_lower) THEN TRUE
       ELSE IF specialty_keyword_match /\ ~ContainsAny(query_lower, {<<"w","h","a","t">>, <<"w","h","i","c","h">>, <<"w","h","e","r","e">>, <<"h","o","w">>, <<"w","h","e","n">>, <<"d","o">>, <<"d","o","e","s">>, <<"a","r","e">>, <<"c","a","n">>, <<"h","a","v","e">>, <<"t","e","l","l">>, <<"i","n","f","o","r","m">>}) THEN FALSE
       ELSE specialty_keyword_match

strong_appointment_indicators == {<<"b","o","o","k"," ","a","p","p","o","i","n","t","m","e","n","t">>, <<"s","c","h","e","d","u","l","e"," ","a","p","p","o","i","n","t","m","e","n","t">>, <<"m","a","k","e"," ","a","p","p","o","i","n","t","m","e","n","t">>, <<"g","e","t"," ","a","p","p","o","i","n","t","m","e","n","t">>, <<"c","r","e","a","t","e"," ","a","p","p","o","i","n","t","m","e","n","t">>, <<"n","e","w"," ","a","p","p","o","i","n","t","m","e","n","t">>, <<"a","p","p","o","i","n","t","m","e","n","t"," ","b","o","o","k","i","n","g">>, <<"a","p","p","o","i","n","t","m","e","n","t"," ","s","c","h","e","d","u","l","e">>, <<"a","p","p","o","i","n","t","m","e","n","t"," ","a","v","a","i","l","a","b","i","l","i","t","y">>, <<"b","o","o","k"," ","a"," ","v","i","s","i","t">>, <<"s","c","h","e","d","u","l","e"," ","a"," ","v","i","s","i","t">>, <<"b","o","o","k"," ","a"," ","s","l","o","t">>}

appointment_patterns(q) == \/ Gap2(q, {<<"b","o","o","k">>, <<"s","c","h","e","d","u","l","e">>, <<"m","a","k","e">>, <<"g","e","t">>, <<"c","r","e","a","t","e">>}, {<<"a","p","p","o","i","n","t","m","e","n","t">>, <<"v","i","s","i","t">>, <<"c","o","n","s","u","l","t","a","t","i","o","n">>})
                           \/ Gap2(q, {<<"a","v","a","i","l","a","b","l","e">>, <<"f","r","e","e">>, <<"o","p","e","n">>}, {<<"s","l","o","t">>, <<"t","i","m","e">>, <<"a","p","p","o","i","n","t","m","e","n","t">>})
                           \/ Gap3(q, {<<"w","h","e","n">>, <<"h","o","w">>}, {<<"s","e","e">>, <<"m","e","e","t">>, <<"v","i","s","i","t">>}, {<<"d","o","c","t","o","r">>, <<"s","p","e","c","i","a","l","i","s","t">>})
                           \/ Gap2(q, {<<"m","y">>, <<"c","h","e","c","k">>}, {<<"a","p","p","o","i","n","t","m","e","n","t">>, <<"b","o","o","k","i","n","g">>, <<"r","e","s","e","r","v","a","t","i","o","n">>})
                           \/ Opt1(q, <<"w","a","l","k">>, <<"i","n">>)
                           \/ Opt1(q, <<"f","o","l","l","o","w">>, <<"u","p">>)
                           \/ Gap2(q, {<<"t","o","d","a","y">>, <<"t","o","m","o","r","r","o","w">>}, {<<"a","p","p","o","i","n","t","m","e","n","t">>, <<"v","i","s","i","t">>})
                           \/ Gap2(q, {<<"a","p","p","o","i","n","t","m","e","n","t">>, <<"b","o","o","k","i","n","g">>}, {<<"s","y","s","t","e","m">>, <<"p","r","o","c","e","s","s">>, <<"a","v","a","i","l","a","b","l","e">>})

_is_appointment_query(query) ==
    LET query_lower == lower(query)
    IN \/ ContainsAny(query_lower, strong_appointment_indicators)
       \/ appointment_patterns(query_lower)
       \/ (ContainsAny(query_lower, {<<"a","p","p","o","i","n","t","m","e","n","t">>, <<"b","o","o","k","i","n","g">>, <<"s","c","h","e","d","u","l","e">>, <<"s","l","o","t">>}) /\ ContainsAny(query_lower, {<<"d","o","c","t","o","r">>, <<"h","o","s","p","i","t","a","l">>, <<"c","l","i","n","i","c">>, <<"m","e","d","i","c","a","l">>, <<"v","i","s","i","t">>}))

(* ------------------------------------------------------------------ *)
(* Python values handed around by the agent                           *)
(* ------------------------------------------------------------------ *)
\* a key that is not in a dict, and the value None / JSON null
ABSENT == "<absent>"
NONE == "<none>"
\* datetime.now().strftime("%Y-%m-%d")
today == "<today>"

\* the parameter names the tools read, other than the free-text query
StrParams == {"id_number", "date_from", "date_to", "resource_type", "resource_id", "session_date", "session_id", "from_time", "patient_id", "appointment_id", "visit_id", "specialty_id", "clinic_id", "to_time"}
\* the parameters the specification calls identity-bearing
IdentityParams == {"patient_id", "appointment_id", "visit_id", "id_number"}
NoParams == [p \in StrParams |-> ABSENT]
\* a dict of parameters: map gives the value of each key (ABSENT when the key is missing)
\* shape: "mapping" a dict, "none" None, "notmapping" any other JSON value
Params(shape, map, has_query, query) == [shape |-> shape, map |-> map, has_query |-> has_query, query |-> query]
EmptyDict == Params("mapping", NoParams, FALSE, <<>>)
\* Python truthiness of a parameter value: `not parameters.get(p)`
Falsy(v) == v \in {ABSENT, NONE, ""}
\* dict.setdefault(key, default)
setdefault(map, key, default) == IF map[key] = ABSENT THEN [map EXCEPT ![key] = default] ELSE map

(* ------------------------------------------------------------------ *)
(* ParameterCollector (tools.py)                                      *)
(* ------------------------------------------------------------------ *)
ToolsWithRequirements == {"search_by_id_number", "get_user_dataset", "get_session_slots", "create_walkin", "create_visit", "get_patient_journey", "get_appointment_followup"}

\* the required_params table of ParameterCollector.validate_parameters
required_params(tool_name) ==
    CASE tool_name = "search_by_id_number" -> <<"id_number">>
      [] tool_name = "get_user_dataset" -> <<"date_from", "date_to", "resource_type">>
      [] tool_name = "get_session_slots" -> <<"resource_id", "session_date", "session_id">>
      [] tool_name = "create_walkin" -> <<"resource_id", "session_id", "session_date", "from_time", "patient_id">>
      [] tool_name = "create_visit" -> <<"appointment_id">>
      [] tool_name = "get_patient_journey" -> <<"visit_id">>
      [] tool_name = "get_appointment_followup" -> <<"patient_id", "date_from", "date_to">>
      [] OTHER -> <<>>

\* a validation that rejects only a missing key, used to show that
\* RequestsCarryRequiredParameters depends on validate_parameters
validate_keys_only(tool_name, map) ==
    IF tool_name \notin ToolsWithRequirements THEN TRUE
    ELSE \A i \in 1..Len(required_params(tool_name)) : map[required_params(tool_name)[i]] # ABSENT
validate_parameters(tool_name, map) ==
    IF tool_name \notin ToolsWithRequirements THEN TRUE
    ELSE \A i \in 1..Len(required_params(tool_name)) : ~Falsy(map[required_params(tool_name)[i]])

\* the user_message texts of get_parameter_requirements (first sentence; the bullet lists are elided)
MsgSearchById == "I need a patient ID number to search for the patient. Please provide the patient ID number."
MsgUserDataset == "I can search for appointments with today's date and default settings. If you need specific dates or resources, please provide: date range (from/to dates), resource type (1=Doctor, 2=Room), and optionally specialty ID, resource ID, or clinic ID."
MsgSessionSlots == "To show available appointment slots, I need to know: Which doctor? What date? Which session? Please provide these details so I can find the best available slots for you."
MsgCreateWalkin == "To create a walk-in appointment, I need: Patient ID, Which doctor? What date? Optionally, you can specify session ID and preferred time. Please provide at least the required details."
MsgCreateVisit == "I need an appointment ID to create a visit. Please provide the appointment ID."
MsgPatientJourney == "I need a visit ID to show the patient journey. Please provide the visit ID."
MsgFollowup == "I can search for follow-up appointments with default patient ID and today's date. If you need specific details, please provide: patient ID and date range (from/to dates)."
\* name.replace('_', ' ') for the names of the registry
replace_underscores(name) ==
    CASE name = "get_doctor_specialties" -> "get doctor specialties"
      [] name = "activate_sso" -> "activate sso"
      [] name = "search_by_id_number" -> "search by id number"
      [] name = "get_today_appointments" -> "get today appointments"
      [] name = "get_ongoing_visits" -> "get ongoing visits"
      [] name = "init_appointments" -> "init appointments"
      [] name = "get_user_dataset" -> "get user dataset"
      [] name = "get_session_slots" -> "get session slots"
      [] name = "create_walkin" -> "create walkin"
      [] name = "get_appointment_number" -> "get appointment number"
      [] name = "create_visit" -> "create visit"
      [] name = "get_patient_journey" -> "get patient journey"
      [] name = "get_appointment_followup" -> "get appointment followup"
      [] OTHER -> name
\* the user_message of the default descriptor
MsgGenericRequirement(tool_name) == "I need additional information to complete the " \o replace_underscores(tool_name) \o " request. Please provide the required parameters."

\* the requirement descriptors of ParameterCollector.get_parameter_requirements
RequirementTable(tool_name) ==
    CASE tool_name = "search_by_id_number" -> [required_parameters |-> <<"id_number">>, user_message |-> MsgSearchById]
      [] tool_name = "get_user_dataset" -> [required_parameters |-> <<"date_from", "date_to", "resource_type">>, user_message |-> MsgUserDataset]
      [] tool_name = "get_session_slots" -> [required_parameters |-> <<"resource_id", "session_date", "session_id">>, user_message |-> MsgSessionSlots]
      [] tool_name = "create_walkin" -> [required_parameters |-> <<"patient_id", "resource_id", "session_date">>, user_message |-> MsgCreateWalkin]
      [] tool_name = "create_visit" -> [required_parameters |-> <<"appointment_id">>, user_message |-> MsgCreateVisit]
      [] tool_name = "get_patient_journey" -> [required_parameters |-> <<"visit_id">>, user_message |-> MsgPatientJourney]
      [] tool_name = "get_appointment_followup" -> [required_parameters |-> <<"patient_id", "date_from", "date_to">>, user_message |-> MsgFollowup]
      [] OTHER -> [required_parameters |-> <<>>, user_message |-> MsgGenericRequirement(tool_name)]

(* ------------------------------------------------------------------ *)
(* Values a tool returns                                              *)
(* ------------------------------------------------------------------ *)
\* kind: "requirements" the dict of get_parameter_requirements, "error" the dict {"error": str(e)},
\*       "json" the value of res.json(), "specialties" the dict built by get_doctor_specialties,
\*       "null" no result (the "result": None of a failed action)
Result(kind, needs, tool_name, msg, err, body, specialties, full) == [kind |-> kind, needs_parameters |-> needs, tool_name |-> tool_name, user_message |-> msg, error |-> err, body |-> body, specialties |-> specialties, is_full_list |-> full]
NullResult == Result("null", FALSE, "", "", "", "", <<>>, FALSE)
ErrorResult(err) == Result("error", FALSE, "", "", err, "", <<>>, FALSE)
\* a JSON body; "flagged" is an object that itself holds "needs_parameters": true and no user_message
JsonResult(body) == Result("json", body = "flagged", "", ABSENT, "", body, <<>>, FALSE)
SpecialtiesResult(specialties, full) == Result("specialties", FALSE, "", "", "", "", specialties, full)
\* a lookup that answers with the default descriptor for every tool, used to show that
\* NeedsParametersEndsTheTurn depends on get_parameter_requirements
default_parameter_requirements(tool_name) == Result("requirements", TRUE, tool_name, MsgGenericRequirement(tool_name), "", "", <<>>, FALSE)
get_parameter_requirements(tool_name) == Result("requirements", TRUE, tool_name, RequirementTable(tool_name).user_message, "", "", <<>>, FALSE)

\* one HTTP request to a hospital endpoint: the tool that sent it, the parameter values it carries
\* and what came back (the kind of the endpoint's behaviour, and the Codes.SPECIALITY of the body)
Request(tool, sent, response, specialties) == [tool |-> tool, sent |-> sent, response |-> response, specialties |-> specialties]
\* what a tool operation did: the value it returned, or the exception it raised, and the requests it sent
Returned(result, requests) == [raised |-> FALSE, error |-> "", result |-> result, requests |-> requests]
Raised(err, requests) == [raised |-> TRUE, error |-> err, result |-> NullResult, requests |-> requests]

(* ------------------------------------------------------------------ *)
(* Behaviour of the hospital endpoints                                *)
(* ------------------------------------------------------------------ *)
\* one specialty entry of Codes.SPECIALITY: a dict with DESCRIPTION, a dict without, or not a dict
Entry(shape, desc) == [shape |-> shape, DESCRIPTION |-> desc]
ECardiology == Entry("dict", <<"C","A","R","D","I","O","L","O","G","Y">>)
EDental == Entry("dict", <<"D","E","N","T","A","L"," ","S","U","R","G","E","R","Y">>)
ENeurology == Entry("dict", <<"N","E","U","R","O","L","O","G","Y">>)
EOrtho == Entry("dict", <<"O","R","T","H","O","P","A","E","D","I","C","S">>)
EEmergency == Entry("dict", <<"E","M","E","R","G","E","N","C","Y">>)
ENoDescription == Entry("dict_without_description", <<>>)
ENotDict == Entry("notdict", <<>>)
SpecialtyLists == {<<>>, <<EDental, ECardiology>>, <<ENeurology, EDental, ECardiology, EOrtho, ENoDescription, EEmergency>>, <<ENotDict>>}

\* kind: "ok" a 2xx response with a JSON body, "flagged" a 2xx response whose JSON body is an object
\*       holding "needs_parameters": true, "http_error" a 4xx/5xx response with a JSON body,
\*       "badjson" a response whose body is not JSON, "raise" a transport error raised by requests
Net(kind, specialties) == [kind |-> kind, specialties |-> specialties]
NetBehaviours == {Net("ok", l) : l \in SpecialtyLists} \cup {Net("flagged", <<>>), Net("http_error", <<>>), Net("badjson", <<>>), Net("raise", <<>>)}
\* the same, a Codes.SPECIALITY whose only entry has no DESCRIPTION, and one of eleven entries
MoreNetBehaviours == NetBehaviours \cup {Net("ok", <<ENoDescription>>), Net("ok", <<ENeurology, EDental, ECardiology, EOrtho, EEmergency, Entry("dict", <<"U","R","O","L","O","G","Y">>), Entry("dict", <<"D","E","R","M","A","T","O","L","O","G","Y">>), Entry("dict", <<"E","N","T">>), Entry("dict", <<"P","A","E","D","I","A","T","R","I","C","S">>), Entry("dict", <<"R","A","D","I","O","L","O","G","Y">>), Entry("dict", <<"O","N","C","O","L","O","G","Y">>)>>)}
NetError(net) == CASE net.kind = "raise" -> "ConnectionError" [] net.kind = "badjson" -> "JSONDecodeError" [] net.kind = "http_error" -> "HTTPError" [] OTHER -> ""

(* ------------------------------------------------------------------ *)
(* Tools (tools.py): each operation gets the parameters of the action *)
(* and the behaviour of the endpoint it calls                         *)
(* ------------------------------------------------------------------ *)
\* try: res = requests.get/post(url); return res.json()  except Exception as e: return {"error": str(e)}
\* (no raise_for_status: the JSON body of an error response is returned like any other)
\* a fetch that sends the request again when the first attempt raises, used to show that
\* AtMostOnceToolExecution depends on fetch_json
fetch_json_with_retry(tool, sent, net) == Returned(IF net.kind \in {"ok", "flagged", "http_error"} THEN JsonResult(net.kind) ELSE ErrorResult(NetError(net)), IF net.kind = "raise" THEN <<Request(tool, sent, net.kind, <<>>), Request(tool, sent, net.kind, <<>>)>> ELSE <<Request(tool, sent, net.kind, <<>>)>>)
fetch_json(tool, sent, net) == Returned(IF net.kind \in {"ok", "flagged", "http_error"} THEN JsonResult(net.kind) ELSE ErrorResult(NetError(net)), <<Request(tool, sent, net.kind, <<>>)>>)
\* the parameter values a tool puts into its URL or body
Sent(map, names) == [p \in StrParams |-> IF p \in names THEN map[p] ELSE ABSENT]

full_list_terms == {<<"F","U","L","L">>, <<"A","L","L">>, <<"C","O","M","P","L","E","T","E">>, <<"Y","E","S">>, <<"Y","E","A","H">>, <<"S","U","R","E">>, <<"L","I","S","T">>, <<"S","H","O","W">>, <<"M","O","R","E">>}
general_query_terms == {<<"A","V","A","I","L","A","B","L","E">>, <<"L","I","S","T">>, <<"A","L","L">>, <<"W","H","A","T">>, <<"W","H","I","C","H">>, <<"H","A","V","E">>, <<"O","F","F","E","R">>}
stop_words == {<<"W","H","A","T">>, <<"W","H","I","C","H">>, <<"A","R","E">>, <<"I","S">>, <<"T","H","E">>, <<"D","O">>, <<"D","O","E","S">>, <<"Y","O","U">>, <<"H","A","V","E">>, <<"A","V","A","I","L","A","B","L","E">>, <<"T","H","E","R","E">>, <<"A","N","Y">>, <<"F","O","R">>, <<"A">>, <<"A","N">>, <<"I","N">>, <<"A","T">>, <<"B","Y">>, <<"W","I","T","H">>, <<"A","B","O","U","T">>, <<"P","L","E","A","S","E">>, <<"C","A","N">>, <<"C","O","U","L","D">>, <<"W","O","U","L","D">>}
\* is_full_list_request or is_general_query of get_doctor_specialties, for the upper-cased query
returns_all(query) == (\E t \in full_list_terms : t \in Range(split(query))) \/ (\E t \in general_query_terms : Contains(query, t))

\* lines 68-113 of get_doctor_specialties for a str query and a list of dict entries
filter_specialties(all_specialties, query_text) ==
    LET query == upper(query_text)
        query_terms == SelectSeq(split(query), LAMBDA t : t \notin stop_words)
        matches(specialty) == \E i \in 1..Len(query_terms) : Contains(upper(specialty.DESCRIPTION), query_terms[i])
    IN IF returns_all(query) THEN SpecialtiesResult(all_specialties, TRUE)
       ELSE IF query # <<>> THEN SpecialtiesResult(SelectSeq(all_specialties, matches), FALSE)
       ELSE SpecialtiesResult(all_specialties, FALSE)

get_doctor_specialties(parameters, net) ==
    LET sent == <<Request("get_doctor_specialties", NoParams, net.kind, net.specialties)>>
        query_text == IF parameters.shape = "none" THEN <<"a","l","l"," ","a","v","a","i","l","a","b","l","e"," ","s","p","e","c","i","a","l","t","i","e","s">> ELSE IF parameters.has_query THEN parameters.query ELSE <<>>
        \* the filter loop calls specialty.get on every entry: an entry that is not a dict raises inside the try
        loop_raises == ~returns_all(upper(query_text)) /\ query_text # <<>> /\ \E i \in 1..Len(net.specialties) : net.specialties[i].shape = "notdict"
    \* a body without "Codes" gives the empty list
    IN IF net.kind \notin {"ok", "flagged"} THEN Returned(ErrorResult(NetError(net)), sent)
       ELSE IF parameters.shape = "notmapping" \/ loop_raises THEN Returned(ErrorResult("AttributeError"), sent)
       ELSE Returned(filter_specialties(net.specialties, query_text), sent)

activate_sso(parameters, net) == fetch_json("activate_sso", NoParams, net)
get_today_appointments(parameters, net) == fetch_json("get_today_appointments", NoParams, net)
get_ongoing_visits(parameters, net) == fetch_json("get_ongoing_visits", NoParams, net)
init_appointments(parameters, net) == fetch_json("init_appointments", NoParams, net)
get_appointment_number(parameters, net) == fetch_json("get_appointment_number", NoParams, net)

search_by_id_number(parameters, net) ==
    IF parameters.shape = "none" THEN Returned(get_parameter_requirements("search_by_id_number"), <<>>)
    ELSE IF parameters.shape = "notmapping" THEN Raised("AttributeError", <<>>)
    ELSE IF Falsy(parameters.map["id_number"]) THEN Returned(get_parameter_requirements("search_by_id_number"), <<>>)
    ELSE IF ~validate_parameters("search_by_id_number", parameters.map) THEN Returned(get_parameter_requirements("search_by_id_number"), <<>>)
    ELSE fetch_json("search_by_id_number", Sent(parameters.map, {"id_number"}), net)

get_user_dataset(parameters, net) ==
    IF parameters.shape = "notmapping" THEN Raised("AttributeError", <<>>)
    ELSE LET given == IF parameters.shape = "none" THEN NoParams ELSE parameters.map
             filled == setdefault(setdefault(setdefault(given, "date_from", today), "date_to", today), "resource_type", "1")
         IN IF ~validate_parameters("get_user_dataset", filled) THEN Returned(get_parameter_requirements("get_user_dataset"), <<>>)
            ELSE fetch_json("get_user_dataset", Sent(filled, {"resource_type", "specialty_id", "resource_id", "clinic_id", "date_from", "date_to", "from_time", "to_time"}), net)

get_session_slots(parameters, net) ==
    IF parameters.shape = "notmapping" THEN Raised("AttributeError", <<>>)
    ELSE LET given == IF parameters.shape = "none" THEN NoParams ELSE parameters.map
             missing_params == {p \in {"resource_id", "session_date", "session_id"} : Falsy(given[p])}
         IN IF missing_params # {} THEN Returned(get_parameter_requirements("get_session_slots"), <<>>)
            ELSE IF ~validate_parameters("get_session_slots", given) THEN Returned(get_parameter_requirements("get_session_slots"), <<>>)
            ELSE fetch_json("get_session_slots", Sent(given, {"resource_id", "session_date", "session_id"}), net)

create_walkin(parameters, net) ==
    IF parameters.shape = "notmapping" THEN Raised("AttributeError", <<>>)
    ELSE LET given == IF parameters.shape = "none" THEN NoParams ELSE parameters.map
             missing_params == {p \in {"patient_id", "resource_id", "session_date"} : Falsy(given[p])}
             filled == setdefault(setdefault(setdefault(setdefault(setdefault(given, "resource_id", "2"), "session_id", "363"), "session_date", today), "from_time", "07%3A10%3A00"), "patient_id", "3598")
         IN IF missing_params # {} THEN Returned(get_parameter_requirements("create_walkin"), <<>>)
            ELSE IF ~validate_parameters("create_walkin", filled) THEN Returned(get_parameter_requirements("create_walkin"), <<>>)
            ELSE fetch_json("create_walkin", Sent(filled, {"resource_id", "session_id", "session_date", "from_time", "patient_id"}), net)

create_visit(parameters, net) ==
    IF parameters.shape = "none" THEN Returned(get_parameter_requirements("create_visit"), <<>>)
    ELSE IF parameters.shape = "notmapping" THEN Raised("AttributeError", <<>>)
    ELSE IF Falsy(parameters.map["appointment_id"]) THEN Returned(get_parameter_requirements("create_visit"), <<>>)
    ELSE IF ~validate_parameters("create_visit", parameters.map) THEN Returned(get_parameter_requirements("create_visit"), <<>>)
    ELSE fetch_json("create_visit", Sent(parameters.map, {"appointment_id"}), net)

get_patient_journey(parameters, net) ==
    IF parameters.shape = "none" THEN Returned(get_parameter_requirements("get_patient_journey"), <<>>)
    ELSE IF parameters.shape = "notmapping" THEN Raised("AttributeError", <<>>)
    ELSE IF Falsy(parameters.map["visit_id"]) THEN Returned(get_parameter_requirements("get_patient_journey"), <<>>)
    ELSE IF ~validate_parameters("get_patient_journey", parameters.map) THEN Returned(get_parameter_requirements("get_patient_journey"), <<>>)
    ELSE fetch_json("get_patient_journey", Sent(parameters.map, {"visit_id"}), net)

get_appointment_followup(parameters, net) ==
    IF parameters.shape = "notmapping" THEN Raised("AttributeError", <<>>)
    ELSE LET given == IF parameters.shape = "none" THEN NoParams ELSE parameters.map
             filled == setdefault(setdefault(setdefault(given, "patient_id", "3598"), "date_from", today), "date_to", today)
         IN IF ~validate_parameters("get_appointment_followup", filled) THEN Returned(get_parameter_requirements("get_appointment_followup"), <<>>)
            ELSE fetch_json("get_appointment_followup", Sent(filled, {"patient_id", "date_from", "date_to"}), net)

(* ------------------------------------------------------------------ *)
(* Decisions of the reasoning step                                    *)
(* ------------------------------------------------------------------ *)
\* a Python value that can become the content of a turn: t is its type and v its text; chars holds
\* the characters when the str is the user's utterance; items and more hold the names and the
\* count that the specialty fallback joins into its sentence
Val(t, v) == [t |-> t, v |-> v, chars |-> <<>>, items |-> <<>>, more |-> 0]
UserText(u) == [t |-> "str", v |-> "", chars |-> u, items |-> <<>>, more |-> 0]
Str(v) == Val("str", v)
AbsentVal == Val("absent", "")
NoneVal == Val("none", "")
\* Python truthiness
Truthy(x) == CASE x.t = "str" -> x.v # "" [] x.t = "int" -> x.v # "0" [] x.t = "list" -> x.v # "[]" [] x.t = "bool" -> x.v = "true" [] OTHER -> FALSE

\* the "action" of a decision: shape "absent" no such key, "mapping" a dict, "notmapping" another value
Action(action_type, parameters) == [shape |-> "mapping", has_action_type |-> TRUE, action_type |-> action_type, parameters |-> parameters]
NoAction == [shape |-> "absent", has_action_type |-> FALSE, action_type |-> "", parameters |-> EmptyDict]
ActionWithoutType == [shape |-> "mapping", has_action_type |-> FALSE, action_type |-> "", parameters |-> EmptyDict]
ActionNotMapping == [shape |-> "notmapping", has_action_type |-> FALSE, action_type |-> "", parameters |-> EmptyDict]
\* the dict a decision is: every field is a value or absent
Decision(reasoning, use_tool, action, direct_answer, out_of_scope) == [reasoning |-> reasoning, use_tool |-> use_tool, action |-> action, direct_answer |-> direct_answer, out_of_scope |-> out_of_scope]
BoolVal(b) == Val("bool", IF b THEN "true" ELSE "false")
NoDecision == Decision(ABSENT, AbsentVal, NoAction, AbsentVal, AbsentVal)

\* a dict of parameters with the given keys set
With(map, key, value) == [map EXCEPT ![key] = value]
Dict(map) == Params("mapping", map, FALSE, <<>>)
QueryDict(query) == Params("mapping", NoParams, TRUE, query)
NoneParams == Params("none", NoParams, FALSE, <<>>)
NotMappingParams == Params("notmapping", NoParams, FALSE, <<>>)

_select_appointment_tool(query) ==
    LET query_lower == lower(query)
        slots == Action("get_session_slots", Dict(With(With(With(NoParams, "resource_id", "2"), "session_date", "2025-06-25"), "session_id", "363")))
    IN IF ContainsAny(query_lower, {<<"t","o","d","a","y">>, <<"c","u","r","r","e","n","t">>, <<"o","n","g","o","i","n","g">>, <<"a","c","t","i","v","e">>}) /\ Contains(query_lower, <<"a","p","p","o","i","n","t","m","e","n","t">>) THEN Action("get_today_appointments", EmptyDict)
       ELSE IF ContainsAny(query_lower, {<<"t","o","d","a","y">>, <<"c","u","r","r","e","n","t">>, <<"o","n","g","o","i","n","g">>, <<"a","c","t","i","v","e">>}) /\ Contains(query_lower, <<"v","i","s","i","t">>) THEN Action("get_ongoing_visits", EmptyDict)
       ELSE IF ContainsAny(query_lower, {<<"b","o","o","k">>, <<"s","c","h","e","d","u","l","e">>, <<"m","a","k","e">>, <<"c","r","e","a","t","e">>, <<"g","e","t">>, <<"n","e","w">>})
            THEN IF ContainsAny(query_lower, {<<"w","a","l","k"," ","i","n">>, <<"w","a","l","k","-","i","n">>, <<"w","a","l","k","i","n">>})
                 THEN Action("create_walkin", Dict(With(With(With(With(With(NoParams, "resource_id", "2"), "session_id", "363"), "session_date", "2025-06-25"), "from_time", "07%3A10%3A00"), "patient_id", "3598")))
                 ELSE slots
       ELSE IF ContainsAny(query_lower, {<<"f","o","l","l","o","w"," ","u","p">>, <<"f","o","l","l","o","w","-","u","p">>, <<"f","o","l","l","o","w","u","p">>}) THEN Action("get_appointment_followup", Dict(With(With(With(NoParams, "patient_id", "3598"), "date_from", "2025-06-25"), "date_to", "2025-06-25")))
       ELSE IF ContainsAny(query_lower, {<<"j","o","u","r","n","e","y">>, <<"s","t","a","t","u","s">>, <<"p","r","o","g","r","e","s","s">>}) THEN Action("get_patient_journey", Dict(With(NoParams, "visit_id", "3502")))
       ELSE IF ContainsAny(query_lower, {<<"a","v","a","i","l","a","b","l","e">>, <<"s","l","o","t">>, <<"t","i","m","e">>}) THEN slots
       ELSE Action("init_appointments", EmptyDict)

(* ------------------------------------------------------------------ *)
(* Behaviour of the language-model endpoint                           *)
(* ------------------------------------------------------------------ *)
\* The JSON objects the model's text can hold, by name.  The text of a response is a sequence of
\* tokens: "prose", "{", "}", the name of one of these bodies (the inside of a JSON object, nested
\* braces included), or a JSON value that is not an object.
LLMText == "<text written by the language model>"
DecisionBodies == {"direct_str", "direct_int", "direct_empty", "reasoned", "oos", "oos_with_text", "tool_no_action", "action_no_type", "action_not_mapping", "unknown_tool", "followup_empty", "followup_blank", "walkin_given", "walkin_no_patient", "visit_given", "visit_null", "search_given", "slots_not_mapping", "journey_given", "dataset_empty", "specialties_cardio", "sso", "appointment_number"}
ToolDecision(action) == Decision(ABSENT, BoolVal(TRUE), action, AbsentVal, AbsentVal)
BodyOf(name) ==
    CASE name = "direct_str" -> Decision(ABSENT, BoolVal(FALSE), NoAction, Str(LLMText), AbsentVal)
      [] name = "direct_int" -> Decision(ABSENT, BoolVal(FALSE), NoAction, Val("int", "42"), AbsentVal)
      [] name = "direct_empty" -> Decision(ABSENT, BoolVal(FALSE), NoAction, Str(""), AbsentVal)
      [] name = "reasoned" -> Decision("model reasoning", BoolVal(FALSE), NoAction, Str(LLMText), AbsentVal)
      [] name = "oos" -> Decision("model reasoning", BoolVal(FALSE), NoAction, NoneVal, BoolVal(TRUE))
      [] name = "oos_with_text" -> Decision("model reasoning", BoolVal(FALSE), NoAction, Str(LLMText), BoolVal(TRUE))
      [] name = "tool_no_action" -> ToolDecision(NoAction)
      [] name = "action_no_type" -> ToolDecision(ActionWithoutType)
      [] name = "action_not_mapping" -> ToolDecision(ActionNotMapping)
      [] name = "unknown_tool" -> ToolDecision(Action("get_weather", EmptyDict))
      [] name = "followup_empty" -> ToolDecision(Action("get_appointment_followup", EmptyDict))
      [] name = "followup_blank" -> ToolDecision(Action("get_appointment_followup", Dict(With(NoParams, "patient_id", ""))))
      [] name = "walkin_given" -> ToolDecision(Action("create_walkin", Dict(With(With(With(NoParams, "patient_id", "P77"), "resource_id", "9"), "session_date", "2026-01-05"))))
      [] name = "walkin_no_patient" -> ToolDecision(Action("create_walkin", Dict(With(With(NoParams, "resource_id", "9"), "session_date", "2026-01-05"))))
      [] name = "visit_given" -> ToolDecision(Action("create_visit", Dict(With(NoParams, "appointment_id", "A5"))))
      [] name = "visit_null" -> ToolDecision(Action("create_visit", NoneParams))
      [] name = "search_given" -> ToolDecision(Action("search_by_id_number", Dict(With(NoParams, "id_number", "DD15"))))
      [] name = "slots_not_mapping" -> ToolDecision(Action("get_session_slots", NotMappingParams))
      [] name = "journey_given" -> ToolDecision(Action("get_patient_journey", Dict(With(NoParams, "visit_id", "V8"))))
      [] name = "dataset_empty" -> ToolDecision(Action("get_user_dataset", EmptyDict))
      [] name = "specialties_cardio" -> ToolDecision(Action("get_doctor_specialties", QueryDict(<<"c","a","r","d","i","o">>)))
      [] name = "sso" -> ToolDecision(Action("activate_sso", EmptyDict))
      [] OTHER -> ToolDecision(Action("get_appointment_number", EmptyDict))

\* JSON values that are not objects
JsonString == "\"reasoning\""
JsonList == "[1]"
JsonNumber == "7"

\* a response of the endpoint: "raise" the call fails (transport error, error status, body not JSON),
\* "no_choices" a body without choices, "empty_choices" choices = [], "null_content" content null,
\* "no_content" a message without content, "text" a first choice with the given content
LLMResponse(kind, content) == [kind |-> kind, content |-> content]
ReasonTexts == {<<"{", b, "}">> : b \in DecisionBodies} \cup {<<"{", "}">>, <<"prose", "{", "direct_str", "}", "prose">>, <<"prose", "{", "direct_str", "}", "prose", "{", "oos", "}">>, <<"prose">>, <<"{", "prose">>, <<JsonString>>, <<JsonList>>, <<JsonNumber>>}
ReasonResponses == {LLMResponse("text", c) : c \in ReasonTexts} \cup {LLMResponse(k, <<>>) : k \in {"raise", "no_choices", "no_content", "empty_choices", "null_content"}}
SynthResponses == {LLMResponse("text", <<"prose">>)} \cup {LLMResponse(k, <<>>) : k \in {"raise", "empty_choices", "null_content"}}

(* ------------------------------------------------------------------ *)
(* Reasoning stage (react_agent.py)                                   *)
(* ------------------------------------------------------------------ *)
ParseFailureAnswer == "I'm having trouble processing your question. Could you please ask specifically about doctor specialties or appointments available at our hospital?"
GenericInvitation == "I'm here to help with questions about doctor specialties and appointments at our hospital. How can I assist you today?"
ParseFallback == Decision("Failed to parse LLM response", BoolVal(FALSE), NoAction, Str(ParseFailureAnswer), BoolVal(TRUE))
\* a fallback whose answer repeats the exception, used to show that FailedReasoningCallInvites
\* depends on LLMFailureDecision
LLMFailureDecisionWithError == Decision("Failed to process with LLM. Providing a general response.", BoolVal(FALSE), NoAction, Str("Error in reasoning step: ConnectionError"), AbsentVal)
LLMFailureDecision == Decision("Failed to process with LLM. Providing a general response.", BoolVal(FALSE), NoAction, Str(GenericInvitation), AbsentVal)

\* re.search(r'\{.*\}', content, re.DOTALL): from the first "{" to the last "}" of the text
json_match(content) ==
    LET opens == {i \in 1..Len(content) : content[i] = "{"}
        closes == {i \in 1..Len(content) : content[i] = "}"}
        first == CHOOSE i \in opens : \A k \in opens : i <= k
        last == CHOOSE j \in closes : \A k \in closes : k <= j
    IN IF opens # {} /\ closes # {} /\ first < last THEN SubSeq(content, first, last) ELSE content

\* json.loads: "dict" with the object, "str", "list", "int", or "error" when the text is not JSON
json_loads(content) ==
    IF Len(content) = 3 /\ content[1] = "{" /\ content[3] = "}" /\ content[2] \in DecisionBodies THEN [shape |-> "dict", decision |-> BodyOf(content[2])]
    ELSE IF content = <<"{", "}">> THEN [shape |-> "dict", decision |-> NoDecision]
    ELSE IF content = <<JsonString>> THEN [shape |-> "str", decision |-> NoDecision]
    ELSE IF content = <<JsonList>> THEN [shape |-> "list", decision |-> NoDecision]
    ELSE IF content = <<JsonNumber>> THEN [shape |-> "int", decision |-> NoDecision]
    ELSE [shape |-> "error", decision |-> NoDecision]

\* the value _parse_reasoning_response returns: a dict, or the str that json.loads gave
_parse_reasoning_response(llm_response) ==
    IF llm_response.kind \in {"empty_choices", "null_content"} THEN [shape |-> "dict", decision |-> ParseFallback]
    ELSE LET content == IF llm_response.kind \in {"no_choices", "no_content"} THEN <<"{", "}">> ELSE llm_response.content
             parsed_response == json_loads(json_match(content))
         IN IF parsed_response.shape = "dict"
            THEN [shape |-> "dict", decision |-> IF parsed_response.decision.reasoning = ABSENT THEN [parsed_response.decision EXCEPT !.reasoning = "No explicit reasoning provided by LLM"] ELSE parsed_response.decision]
            \* "reasoning" not in "reasoning" is False for the str: it is returned as it is
            ELSE IF parsed_response.shape = "str" THEN parsed_response
            \* a list or a number raises at the reasoning check, text that is not JSON at json.loads
            ELSE [shape |-> "dict", decision |-> ParseFallback]

\* guard clauses that try the appointment detector first, used to show that
\* GreetingAnswersDirectly depends on classify
classify_appointment_first(query) == IF _is_appointment_query(query) THEN "appointment" ELSE IF _is_greeting(query) THEN "greeting" ELSE IF _is_specialty_query(query) THEN "specialty" ELSE "llm"
\* guard clauses that try the specialty detector before the appointment detector, used to show
\* that IntentOrder depends on classify
classify_specialty_first(query) == IF _is_greeting(query) THEN "greeting" ELSE IF _is_specialty_query(query) THEN "specialty" ELSE IF _is_appointment_query(query) THEN "appointment" ELSE "llm"
\* which of the guard clauses of _reason decides: "greeting", "appointment", "specialty" or "llm"
classify(query) == IF _is_greeting(query) THEN "greeting" ELSE IF _is_appointment_query(query) THEN "appointment" ELSE IF _is_specialty_query(query) THEN "specialty" ELSE "llm"

\* lines 133-155 of _reason: the decision taken from the language model's answer
_reason_with_llm(llm_response) ==
    IF llm_response.kind = "raise" THEN LLMFailureDecision
    \* reasoning_output.get(...) in the log line raises for a str and lands in the same except
    ELSE IF _parse_reasoning_response(llm_response).shape # "dict" THEN LLMFailureDecision
    ELSE _parse_reasoning_response(llm_response).decision

\* _reason; llm_response is the endpoint's answer to the one call made when no heuristic matches
_reason(query, llm_response) ==
    LET intent == classify(query)
    IN IF intent = "greeting" THEN Decision("The user is providing a greeting or asking a simple question. I can answer directly without using a tool.", BoolVal(FALSE), NoAction, Str(_get_greeting_response(query)), AbsentVal)
       ELSE IF intent = "appointment" THEN Decision("The user is asking about appointments. I should use the " \o _select_appointment_tool(query).action_type \o " tool.", BoolVal(TRUE), _select_appointment_tool(query), AbsentVal, AbsentVal)
       ELSE IF intent = "specialty" THEN Decision("The user is asking about doctor specialties. I should use the get_doctor_specialties tool to retrieve accurate information from our API.", BoolVal(TRUE), Action("get_doctor_specialties", QueryDict(query)), AbsentVal, AbsentVal)
       ELSE _reason_with_llm(llm_response)

\* the guard clause and the decision of _reason for each utterance when its language-model call
\* fails, computed once (the heuristics do not depend on the agent's state)
ReasonTable == {[user_query |-> u, intent |-> classify(u), decision |-> _reason(u, LLMResponse("raise", <<>>))] : u \in MoreUtterances}
Reasoned(query) == CHOOSE r \in ReasonTable : r.user_query = query

(* ------------------------------------------------------------------ *)
(* Action and observation stages                                      *)
(* ------------------------------------------------------------------ *)
\* the keys of self.tools
tools == {"get_doctor_specialties", "activate_sso", "search_by_id_number", "get_today_appointments", "get_ongoing_visits", "init_appointments", "get_user_dataset", "get_session_slots", "create_walkin", "get_appointment_number", "create_visit", "get_patient_journey", "get_appointment_followup"}

\* self.tools[action_type](parameters)
call_tool(action_type, parameters, net) ==
    CASE action_type = "get_doctor_specialties" -> get_doctor_specialties(parameters, net)
      [] action_type = "activate_sso" -> activate_sso(parameters, net)
      [] action_type = "search_by_id_number" -> search_by_id_number(parameters, net)
      [] action_type = "get_today_appointments" -> get_today_appointments(parameters, net)
      [] action_type = "get_ongoing_visits" -> get_ongoing_visits(parameters, net)
      [] action_type = "init_appointments" -> init_appointments(parameters, net)
      [] action_type = "get_user_dataset" -> get_user_dataset(parameters, net)
      [] action_type = "get_session_slots" -> get_session_slots(parameters, net)
      [] action_type = "create_walkin" -> create_walkin(parameters, net)
      [] action_type = "get_appointment_number" -> get_appointment_number(parameters, net)
      [] action_type = "create_visit" -> create_visit(parameters, net)
      [] action_type = "get_patient_journey" -> get_patient_journey(parameters, net)
      [] OTHER -> get_appointment_followup(parameters, net)

\* the dict _act returns
ActionResult(success, needs, prompt, tool_name, requirements, err, result) == [success |-> success, needs_parameters |-> needs, parameter_prompt |-> prompt, tool_name |-> tool_name, parameter_requirements |-> requirements, error |-> err, result |-> result]
NoActionResult == ActionResult(FALSE, FALSE, "", "", NullResult, "", NullResult)
Failure(err) == ActionResult(FALSE, FALSE, "", "", NullResult, err, NullResult)
\* what _act did: the dict it returned or the exception it let through, the tool operations it
\* invoked and the requests they sent
ActDone(raised, err, outcome, invoked, requests) == [raised |-> raised, error |-> err, outcome |-> outcome, invoked |-> invoked, requests |-> requests]

\* the classification of the tool's return value, lines 419-440
classify_outcome(tool_name, run) ==
    IF run.raised THEN Failure(run.error)
    ELSE IF run.result.needs_parameters THEN ActionResult(FALSE, TRUE, IF run.result.user_message = ABSENT THEN "Additional information required" ELSE run.result.user_message, tool_name, run.result, "", NullResult)
    ELSE ActionResult(TRUE, FALSE, "", "", NullResult, "", run.result)

\* a dispatcher that sends an unknown action type to the specialty tool, used to show that
\* UnknownActionTypeFails depends on _act
_act_with_default_tool(action, net) ==
    IF action.shape = "notmapping" THEN ActDone(TRUE, "TypeError", NoActionResult, <<>>, <<>>)
    ELSE IF ~action.has_action_type THEN ActDone(TRUE, "KeyError", NoActionResult, <<>>, <<>>)
    ELSE LET tool_name == IF action.action_type \in tools THEN action.action_type ELSE "get_doctor_specialties"
             run == call_tool(tool_name, action.parameters, net)
         IN ActDone(FALSE, "", classify_outcome(tool_name, run), <<tool_name>>, run.requests)

_act(action, net) ==
    \* action['action_type'] in the log line, before the try
    IF action.shape = "notmapping" THEN ActDone(TRUE, "TypeError", NoActionResult, <<>>, <<>>)
    ELSE IF ~action.has_action_type THEN ActDone(TRUE, "KeyError", NoActionResult, <<>>, <<>>)
    ELSE IF action.action_type \notin tools THEN ActDone(FALSE, "", Failure("Unknown action type: " \o action.action_type), <<>>, <<>>)
    ELSE LET run == call_tool(action.action_type, action.parameters, net)
         IN ActDone(FALSE, "", classify_outcome(action.action_type, run), <<action.action_type>>, run.requests)

\* the observation: the raw result of a successful action, or an error text
Observation(is_error, result, text) == [is_error |-> is_error, result |-> result, text |-> text]
NoObservation == Observation(FALSE, NullResult, "")
_observe(outcome) == IF outcome.success THEN Observation(FALSE, outcome.result, "") ELSE Observation(TRUE, NullResult, "Error: " \o outcome.error)

(* ------------------------------------------------------------------ *)
(* Final synthesis                                                    *)
(* ------------------------------------------------------------------ *)
ExtractError == "I'm sorry, I encountered an error while processing your request."
_extract_final_answer(llm_response) ==
    CASE llm_response.kind = "text" -> Str(LLMText)
      [] llm_response.kind = "null_content" -> NoneVal
      [] llm_response.kind = "empty_choices" -> Str(ExtractError)
      [] OTHER -> Str("")

\* a list that holds "Unknown" for every entry, used to show that SpecialtyFallbackNamesFirstFive
\* depends on specialty_names
specialty_names_unknown(specialties) == [i \in 1..(IF Len(specialties) < 5 THEN Len(specialties) ELSE 5) |-> <<"U","n","k","n","o","w","n">>]
\* a list of the names of all entries, used to show that SpecialtiesQuestionListsFive depends on
\* specialty_names
specialty_names_all(specialties) == [i \in 1..Len(specialties) |-> IF specialties[i].shape = "dict" THEN specialties[i].DESCRIPTION ELSE <<"U","n","k","n","o","w","n">>]
\* [s.get("DESCRIPTION", "Unknown") for s in specialties[:5]]
specialty_names(specialties) == [i \in 1..(IF Len(specialties) < 5 THEN Len(specialties) ELSE 5) |-> IF specialties[i].shape = "dict" THEN specialties[i].DESCRIPTION ELSE <<"U","n","k","n","o","w","n">>]

\* what the except block of the final reasoning did: the answer, or the exception it raised
FallbackDone(raised, answer) == [raised |-> raised, answer |-> answer]
\* a fallback without the generic template, used to show that FallbackTemplateForEveryTool
\* depends on synthesis_fallback
synthesis_fallback_named_tools_only(tool_type, outcome) ==
    IF ~outcome.success THEN FallbackDone(FALSE, Str("I'm sorry, I encountered an error while processing your request."))
    ELSE IF tool_type = "get_doctor_specialties" /\ outcome.result.kind = "specialties"
         THEN LET specialties == outcome.result.specialties
              IN IF specialties = <<>> THEN FallbackDone(FALSE, Str("I couldn't find any matching specialties for your query."))
                 ELSE IF \E i \in 1..Len(specialties) : i <= 5 /\ specialties[i].shape = "notdict" THEN FallbackDone(TRUE, AbsentVal)
                 ELSE FallbackDone(FALSE, [t |-> "str", v |-> "I found these specialties: ", chars |-> <<>>, items |-> specialty_names(specialties), more |-> IF Len(specialties) > 5 THEN Len(specialties) - 5 ELSE 0])
    \* `"create_walkin" in tool_type` and the like: no registered name contains another
    ELSE IF tool_type = "create_walkin" THEN FallbackDone(FALSE, Str("I've scheduled a walk-in appointment for you. Your appointment has been confirmed."))
    ELSE IF tool_type = "get_today_appointments" THEN FallbackDone(FALSE, Str("I've retrieved today's appointments. You can view the details in the system."))
    ELSE IF tool_type = "get_ongoing_visits" THEN FallbackDone(FALSE, Str("I've checked the ongoing visits in the hospital. The information has been retrieved."))
    ELSE IF tool_type = "get_session_slots" THEN FallbackDone(FALSE, Str("I've found available appointment slots. You can select one for your appointment."))
    ELSE IF tool_type = "get_appointment_followup" THEN FallbackDone(FALSE, Str("I've checked your follow-up appointments. The information is now available."))
    ELSE IF tool_type = "get_patient_journey" THEN FallbackDone(FALSE, Str("I've retrieved your patient journey information. You can see your progress."))
    ELSE IF tool_type = "create_visit" THEN FallbackDone(FALSE, Str("I've created a visit record for your appointment. You're all set."))
    ELSE IF tool_type = "search_by_id_number" THEN FallbackDone(FALSE, Str("I've found your patient record using your ID number. Your information has been retrieved."))
    ELSE IF tool_type = "activate_sso" THEN FallbackDone(FALSE, Str("I've activated your SSO account. You can now log in with your credentials."))
    ELSE FallbackDone(FALSE, Str(""))
\* the except block of the final reasoning, lines 515-553
synthesis_fallback(tool_type, outcome) ==
    IF ~outcome.success THEN FallbackDone(FALSE, Str("I'm sorry, I encountered an error while processing your request."))
    ELSE IF tool_type = "get_doctor_specialties" /\ outcome.result.kind = "specialties"
         THEN LET specialties == outcome.result.specialties
              IN IF specialties = <<>> THEN FallbackDone(FALSE, Str("I couldn't find any matching specialties for your query."))
                 ELSE IF \E i \in 1..Len(specialties) : i <= 5 /\ specialties[i].shape = "notdict" THEN FallbackDone(TRUE, AbsentVal)
                 ELSE FallbackDone(FALSE, [t |-> "str", v |-> "I found these specialties: ", chars |-> <<>>, items |-> specialty_names(specialties), more |-> IF Len(specialties) > 5 THEN Len(specialties) - 5 ELSE 0])
    \* `"create_walkin" in tool_type` and the like: no registered name contains another
    ELSE IF tool_type = "create_walkin" THEN FallbackDone(FALSE, Str("I've scheduled a walk-in appointment for you. Your appointment has been confirmed."))
    ELSE IF tool_type = "get_today_appointments" THEN FallbackDone(FALSE, Str("I've retrieved today's appointments. You can view the details in the system."))
    ELSE IF tool_type = "get_ongoing_visits" THEN FallbackDone(FALSE, Str("I've checked the ongoing visits in the hospital. The information has been retrieved."))
    ELSE IF tool_type = "get_session_slots" THEN FallbackDone(FALSE, Str("I've found available appointment slots. You can select one for your appointment."))
    ELSE IF tool_type = "get_appointment_followup" THEN FallbackDone(FALSE, Str("I've checked your follow-up appointments. The information is now available."))
    ELSE IF tool_type = "get_patient_journey" THEN FallbackDone(FALSE, Str("I've retrieved your patient journey information. You can see your progress."))
    ELSE IF tool_type = "create_visit" THEN FallbackDone(FALSE, Str("I've created a visit record for your appointment. You're all set."))
    ELSE IF tool_type = "search_by_id_number" THEN FallbackDone(FALSE, Str("I've found your patient record using your ID number. Your information has been retrieved."))
    ELSE IF tool_type = "activate_sso" THEN FallbackDone(FALSE, Str("I've activated your SSO account. You can now log in with your credentials."))
    ELSE FallbackDone(FALSE, Str("I processed your request about " \o replace_underscores(tool_type) \o ". The operation was successful."))

(* ------------------------------------------------------------------ *)
(* ReActAgent.chat as a state machine                                 *)
(* ------------------------------------------------------------------ *)
VARIABLES
    conversation_history, \* self.conversation_history
    pc,                   \* where the current chat call is: "idle" before the first call, "reason", "decide", "synthesize", "except", and "done" / "raised" once it returned / raised to its caller
    user_query,           \* the utterance of the current call
    reasoning_output,     \* the decision of _reason
    action_result,        \* the dict returned by _act
    observation,          \* the value returned by _observe
    final_answer,         \* the local final_answer
    returned,             \* the value the call returned
    exception,            \* the exception raised inside the call, "" if none
    llm_calls,            \* the calls of _call_llm made by the current call, by call site
    llm_responses,        \* what the endpoint answered to each of them
    tool_invocations,     \* the tool operations invoked by the current call
    http_requests,        \* the requests sent to the hospital endpoints by the current call
    calls,                \* the number of chat calls started
    callers,              \* the client (session) whose message started each of them
    history_at_entry      \* conversation_history when the current call started

vars == <<conversation_history, pc, user_query, reasoning_output, action_result, observation, final_answer, returned, exception, llm_calls, llm_responses, tool_invocations, http_requests, calls, callers, history_at_entry>>

Turn(role, content) == [role |-> role, content |-> content]
ErrorMessage == "I'm sorry, I encountered an unexpected error. Please try asking about our doctor specialties or appointments again."
OutOfScopeMessage == "I'm currently focused on providing information about doctor specialties and appointments at our hospital. I don't have information about other topics yet. How can I help you with our medical specialists or scheduling appointments?"

\* a try block that opens only after the action, used to show that ChatIsTotal depends on TryBlock
TryBlockWithoutDecide == {"reason", "synthesize"}
\* the steps of chat that run inside its try block (lines 479-576)
TryBlock == {"reason", "decide", "synthesize"}
\* where control goes when the step raises
OnRaise(step) == IF step \in TryBlock THEN "except" ELSE "raised"

Init ==
    /\ conversation_history = <<>>
    /\ pc = "idle"
    /\ user_query = <<>>
    /\ reasoning_output = NoDecision
    /\ action_result = NoActionResult
    /\ observation = NoObservation
    /\ final_answer = AbsentVal
    /\ returned = AbsentVal
    /\ exception = ""
    /\ llm_calls = <<>>
    /\ llm_responses = <<>>
    /\ tool_invocations = <<>>
    /\ http_requests = <<>>
    /\ calls = 0
    /\ callers = <<>>
    /\ history_at_entry = <<>>

\* the sessions that talk to the server: a client of POST /api/chat and a client of the /ws socket
Clients == {"http_client", "ws_client"}
\* main.py hands every message to the one module-level agent (lines 112 and 207); chat, lines
\* 474-477: a new call appends the user turn
ChatFrom(client, u) ==
    /\ pc \in {"idle", "done", "raised"}
    /\ calls < MaxCalls
    /\ conversation_history' = Append(conversation_history, Turn("user", UserText(u)))
    /\ pc' = "reason"
    /\ user_query' = u
    /\ reasoning_output' = NoDecision
    /\ action_result' = NoActionResult
    /\ observation' = NoObservation
    /\ final_answer' = AbsentVal
    /\ returned' = AbsentVal
    /\ exception' = ""
    /\ llm_calls' = <<>>
    /\ llm_responses' = <<>>
    /\ tool_invocations' = <<>>
    /\ http_requests' = <<>>
    /\ calls' = calls + 1
    /\ callers' = Append(callers, client)
    /\ history_at_entry' = conversation_history
Chat(u) == ChatFrom("http_client", u)

\* a reasoning step that trusts its heuristics only while the history is empty, used to show that
\* SameUtteranceSameLookup depends on Reason
ReasonByHistory ==
    /\ pc = "reason"
    /\ \E heuristic \in {Reasoned(user_query)} :
        IF heuristic.intent # "llm" /\ history_at_entry = <<>> THEN reasoning_output' = heuristic.decision /\ UNCHANGED <<llm_calls, llm_responses>>
        ELSE /\ llm_calls' = Append(llm_calls, "reasoning")
             /\ \E llm_response \in ReasonResponses : llm_responses' = Append(llm_responses, llm_response) /\ reasoning_output' = _reason_with_llm(llm_response)
    /\ pc' = "decide"
    /\ UNCHANGED <<conversation_history, user_query, action_result, observation, final_answer, returned, exception, tool_invocations, http_requests, calls, callers, history_at_entry>>

\* line 481: _reason, with the one language-model call it makes when no heuristic matches
Reason ==
    /\ pc = "reason"
    /\ \E heuristic \in {Reasoned(user_query)} :
        IF heuristic.intent # "llm" THEN reasoning_output' = heuristic.decision /\ UNCHANGED <<llm_calls, llm_responses>>
        ELSE /\ llm_calls' = Append(llm_calls, "reasoning")
             /\ \E llm_response \in ReasonResponses : llm_responses' = Append(llm_responses, llm_response) /\ reasoning_output' = _reason_with_llm(llm_response)
    /\ pc' = "decide"
    /\ UNCHANGED <<conversation_history, user_query, action_result, observation, final_answer, returned, exception, tool_invocations, http_requests, calls, callers, history_at_entry>>

\* lines 574-576 (and 495-496): the answer is appended as the assistant turn and returned
Respond(answer) ==
    /\ final_answer' = answer
    /\ conversation_history' = Append(conversation_history, Turn("assistant", answer))
    /\ returned' = answer
    /\ pc' = "done"

\* the step raises: control leaves it for the except block, or for the caller
Raise(step, err) ==
    /\ exception' = err
    /\ pc' = OnRaise(step)
    /\ UNCHANGED <<conversation_history, final_answer, returned>>

\* lines 484-496: the action, and the early return when the tool asks for parameters
ActOn(endpoints) ==
    /\ pc = "decide"
    /\ Truthy(reasoning_output.use_tool)
    \* reasoning_output["action"] raises KeyError when the decision has no action
    /\ \E net \in endpoints : \E done \in {IF reasoning_output.action.shape = "absent" THEN ActDone(TRUE, "KeyError", NoActionResult, <<>>, <<>>) ELSE _act(reasoning_output.action, net)} :
           /\ action_result' = done.outcome
           /\ tool_invocations' = done.invoked
           /\ http_requests' = done.requests
           /\ IF done.raised THEN Raise("decide", done.error)
              ELSE IF ~done.outcome.success /\ done.outcome.needs_parameters THEN Respond(Str(done.outcome.parameter_prompt)) /\ UNCHANGED exception
              ELSE pc' = "synthesize" /\ UNCHANGED <<conversation_history, final_answer, returned, exception>>
    /\ UNCHANGED <<user_query, reasoning_output, observation, llm_calls, llm_responses, calls, callers, history_at_entry>>
Act == ActOn(NetBehaviours)

\* a final reasoning that repeats its language-model call once when it fails, used to show that
\* GatewayCalledOncePerPurpose depends on Synthesize
SynthesizeWithRetry ==
    /\ pc = "synthesize"
    /\ observation' = _observe(action_result)
    /\ \E first \in SynthResponses : \E llm_response \in (IF first.kind = "raise" THEN SynthResponses ELSE {first}) :
        /\ llm_calls' = (IF first.kind = "raise" THEN Append(llm_calls, "final") ELSE llm_calls) \o <<"final">>
        /\ llm_responses' = (IF first.kind = "raise" THEN Append(llm_responses, first) ELSE llm_responses) \o <<llm_response>>
        /\ IF llm_response.kind # "raise" THEN Respond(_extract_final_answer(llm_response)) /\ UNCHANGED exception
           ELSE \E fallback \in {synthesis_fallback(reasoning_output.action.action_type, action_result)} :
                   IF fallback.raised THEN Raise("synthesize", "AttributeError")
                   ELSE Respond(fallback.answer) /\ UNCHANGED exception
    /\ UNCHANGED <<user_query, reasoning_output, action_result, tool_invocations, http_requests, calls, callers, history_at_entry>>

\* lines 499-553 and 574-576: the observation, the final language-model call, the fallback when
\* that call fails, and the return of the answer
Synthesize ==
    /\ pc = "synthesize"
    /\ observation' = _observe(action_result)
    /\ llm_calls' = Append(llm_calls, "final")
    /\ \E llm_response \in SynthResponses :
        /\ llm_responses' = Append(llm_responses, llm_response)
        /\ IF llm_response.kind # "raise" THEN Respond(_extract_final_answer(llm_response)) /\ UNCHANGED exception
           ELSE \E fallback \in {synthesis_fallback(reasoning_output.action.action_type, action_result)} :
                   IF fallback.raised THEN Raise("synthesize", "AttributeError")
                   ELSE Respond(fallback.answer) /\ UNCHANGED exception
    /\ UNCHANGED <<user_query, reasoning_output, action_result, tool_invocations, http_requests, calls, callers, history_at_entry>>

has_direct_answer(decision) == decision.direct_answer.t # "absent" /\ Truthy(decision.direct_answer)

\* lines 556-559 and 574-576
DirectAnswer ==
    /\ pc = "decide"
    /\ ~Truthy(reasoning_output.use_tool)
    /\ has_direct_answer(reasoning_output)
    /\ Respond(reasoning_output.direct_answer)
    /\ UNCHANGED <<user_query, reasoning_output, action_result, observation, exception, llm_calls, llm_responses, tool_invocations, http_requests, calls, callers, history_at_entry>>

\* lines 562-565 and 574-576
OutOfScope ==
    /\ pc = "decide"
    /\ ~Truthy(reasoning_output.use_tool)
    /\ ~has_direct_answer(reasoning_output)
    /\ Truthy(reasoning_output.out_of_scope)
    /\ Respond(Str(OutOfScopeMessage))
    /\ UNCHANGED <<user_query, reasoning_output, action_result, observation, exception, llm_calls, llm_responses, tool_invocations, http_requests, calls, callers, history_at_entry>>

\* lines 568-571 and 574-576
Fallback ==
    /\ pc = "decide"
    /\ ~Truthy(reasoning_output.use_tool)
    /\ ~has_direct_answer(reasoning_output)
    /\ ~Truthy(reasoning_output.out_of_scope)
    /\ Respond(Str(GenericInvitation))
    /\ UNCHANGED <<user_query, reasoning_output, action_result, observation, exception, llm_calls, llm_responses, tool_invocations, http_requests, calls, callers, history_at_entry>>

\* an except block that returns the apology without appending it, used to show that
\* HistoryGrowsByOneExchange depends on ChatExcept
ChatExceptWithoutAppend ==
    /\ pc = "except"
    /\ returned' = Str(ErrorMessage)
    /\ pc' = "done"
    /\ UNCHANGED <<conversation_history, user_query, reasoning_output, action_result, observation, final_answer, exception, llm_calls, llm_responses, tool_invocations, http_requests, calls, callers, history_at_entry>>

\* lines 578-583: the outermost except
ChatExcept ==
    /\ pc = "except"
    /\ conversation_history' = Append(conversation_history, Turn("assistant", Str(ErrorMessage)))
    /\ returned' = Str(ErrorMessage)
    /\ pc' = "done"
    /\ UNCHANGED <<user_query, reasoning_output, action_result, observation, final_answer, exception, llm_calls, llm_responses, tool_invocations, http_requests, calls, callers, history_at_entry>>

Next ==
    \/ \E u \in Utterances : Chat(u)
    \/ Reason
    \/ Act
    \/ Synthesize
    \/ DirectAnswer
    \/ OutOfScope
    \/ Fallback
    \/ ChatExcept

Spec == Init /\ [][Next]_vars

\* one call of chat on a fresh agent, over more utterances and more answers of the endpoints
FirstChat(u) == calls = 0 /\ Chat(u)
SingleCallNext ==
    \/ \E u \in MoreUtterances : FirstChat(u)
    \/ Reason
    \/ ActOn(MoreNetBehaviours)
    \/ Synthesize
    \/ DirectAnswer
    \/ OutOfScope
    \/ Fallback
    \/ ChatExcept
SingleCallSpec == Init /\ [][SingleCallNext]_vars

\* the server with its two kinds of client, whose messages arrive in any order
TwoSessionsNext ==
    \/ \E client \in Clients : \E u \in {UHello, UCardiologyDoctor, UWeather} : ChatFrom(client, u)
    \/ Reason
    \/ Act
    \/ Synthesize
    \/ DirectAnswer
    \/ OutOfScope
    \/ Fallback
    \/ ChatExcept
TwoSessionsSpec == Init /\ [][TwoSessionsNext]_vars

(* ------------------------------------------------------------------ *)
(* Properties of chat                                                 *)
(* ------------------------------------------------------------------ *)
\* a call is between its entry and its return
InCall == pc \in {"reason", "decide", "synthesize", "except"}
Last(s) == s[Len(s)]

\* the position of a step in one call of chat
Rank(step) == CASE step = "reason" -> 1 [] step = "decide" -> 2 [] step = "synthesize" -> 3 [] step = "except" -> 4 [] OTHER -> 5
NeverRaisesToCaller ==
    /\ pc # "raised"
    /\ (pc = "done" /\ exception # "") => returned = Str(ErrorMessage) /\ Last(conversation_history) = Turn("assistant", Str(ErrorMessage))
    /\ (pc = "done" /\ exception = "") => returned = final_answer
StepsForward == InCall => Rank(pc') > Rank(pc)
\* C1: chat is total.  No call ever raises to its caller, whatever the language-model endpoint and
\* the hospital endpoints answer; a call in which a stage raised returns the fixed apology,
\* appended as its assistant turn; and every step of a call leads strictly forward (reason,
\* decide, synthesize, except, return), so a call returns after at most four steps.
ChatIsTotal == []NeverRaisesToCaller /\ [][StepsForward]_vars
\* C1, reached: the decision asked for a tool without naming an action, the KeyError was caught
\* and the call returned the apology
ChatCaughtAnException == pc = "done" /\ exception = "KeyError" /\ tool_invocations = <<>> /\ returned = Str(ErrorMessage)

HistoryAtReturn ==
    /\ pc = "done" => conversation_history = history_at_entry \o <<Turn("user", UserText(user_query)), Turn("assistant", returned)>>
    /\ pc \in {"idle", "done"} => Len(conversation_history) = 2 * calls
    /\ pc \in {"idle", "done"} => \A i \in 1..Len(conversation_history) : conversation_history[i].role = IF i % 2 = 1 THEN "user" ELSE "assistant"
EarlierEntriesKept == \A i \in 1..Len(conversation_history) : i <= Len(conversation_history') /\ conversation_history'[i] = conversation_history[i]
\* C2: every completed call leaves conversation_history equal to its value at entry followed by
\* the user turn with the utterance and one assistant turn holding the returned answer, on every
\* path; between calls the history alternates user, assistant and has length 2 x (completed
\* calls); and no step removes or edits an entry that is already there.
HistoryGrowsByOneExchange == []HistoryAtReturn /\ [][EarlierEntriesKept]_vars
\* C2, reached: a second call that ended in the except block, after a first call that returned
\* the prompt of a tool
SecondCallEndedInExcept == pc = "done" /\ calls = 2 /\ exception # "" /\ Len(conversation_history) = 4 /\ conversation_history[2].content \in {Str(MsgCreateVisit), Str(MsgFollowup)}

\* C3: the value chat returns is always a str.
\* Violated: a direct_answer that is a number is returned as it is, and a synthesis response whose
\* content is null makes chat return None.
ChatReturnsAString == pc = "done" => returned.t = "str"

\* C4: whenever the outcome of the action is needs-parameters, the call has ended: it returned the
\* parameter prompt, appended it as the assistant turn, and made neither an observation nor a
\* language-model call for the final answer; and when it is the dispatched tool that reported the
\* missing parameters, the prompt is exactly the user_message of that tool's requirement
\* descriptor.
NeedsParametersEndsTheTurn ==
    action_result.needs_parameters =>
        /\ pc = "done"
        /\ returned = Str(action_result.parameter_prompt)
        /\ Last(conversation_history) = Turn("assistant", returned)
        /\ \A i \in 1..Len(llm_calls) : llm_calls[i] # "final"
        /\ observation = NoObservation
        /\ action_result.parameter_requirements.kind = "requirements" =>
            /\ tool_invocations = <<action_result.tool_name>>
            /\ returned = Str(RequirementTable(action_result.tool_name).user_message)
\* C4, reached: the model asked for create_visit with parameters null and the call returned the
\* message of create_visit after the one language-model call of the reasoning step
VisitPromptReturned == pc = "done" /\ action_result.needs_parameters /\ tool_invocations = <<"create_visit">> /\ returned = Str(MsgCreateVisit) /\ llm_calls = <<"reasoning">>

\* C5: for "book appointment" chat returns the requirement message of get_session_slots or of
\* create_walkin and sends no request to the hospital endpoints.
\* Violated: the selector hands get_session_slots its own resource_id, session_date and
\* session_id, so the tool sends the request and, when the endpoint answers it, the answer comes
\* from the final synthesis.
BookAppointmentAsksForParameters == (pc = "done" /\ user_query = UBookAppointment /\ \A i \in 1..Len(http_requests) : http_requests[i].response = "ok") => returned \in {Str(MsgSessionSlots), Str(MsgCreateWalkin)} /\ http_requests = <<>>

\* C6: a request that carries patient_id, appointment_id, visit_id or id_number (here one that
\* the endpoint answered normally) carries a value
\* that the user or the model supplied in the decision's parameters; no layer fills one in.
\* Violated: the selector puts patient_id 3598 and visit_id 3502 into its decisions, and
\* get_appointment_followup fills in patient_id 3598 when the model gave none.
IdentityParametersAreNeverDefaulted ==
    \A i \in 1..Len(http_requests) : \A p \in IdentityParams :
        (http_requests[i].response = "ok" /\ http_requests[i].sent[p] # ABSENT) => Reasoned(user_query).intent = "llm" /\ reasoning_output.action.parameters.map[p] = http_requests[i].sent[p]

\* C7: in one chat call at most one tool operation is invoked and at most one request is sent to
\* the hospital endpoints, whatever fails afterwards.
AtMostOnceToolExecution == Len(tool_invocations) <= 1 /\ Len(http_requests) <= 1
\* C7, reached: create_walkin was invoked once, its one request failed in transport, the final
\* language-model call was made, and the call returned
WalkinRequestedOnceDespiteFailure == pc = "done" /\ tool_invocations = <<"create_walkin">> /\ Len(http_requests) = 1 /\ http_requests[1].response = "raise" /\ Last(llm_calls) = "final"

\* C8: when the request of a validated tool fails with a transport error, the outcome of the
\* action is a failure carrying the error and the observation is "Error: " followed by it.
\* Violated: the tool catches the error and returns {"error": ...}, which _act classifies as a
\* success, and the observation is that dict.
DownstreamFailureIsAFailure ==
    (pc \in {"synthesize", "done"} /\ \E i \in 1..Len(http_requests) : http_requests[i].response = "raise") =>
        /\ ~action_result.success
        /\ action_result.error = "ConnectionError"
        /\ pc = "done" => observation = Observation(TRUE, NullResult, "Error: ConnectionError")

\* the decision asks for a tool whose action_type (a str) is not a key of the registry
UnknownActionType == Truthy(reasoning_output.use_tool) /\ reasoning_output.action.has_action_type /\ reasoning_output.action.action_type \notin tools
\* C9: dispatching an action_type that is not in the registry gives a failure whose error names
\* that action type; no tool operation is invoked, no request is sent and nothing raises, up to
\* the end of the call, where the observation is the error text.
UnknownActionTypeFails ==
    (UnknownActionType /\ pc \in {"synthesize", "except", "done", "raised"}) =>
        /\ action_result = Failure("Unknown action type: " \o reasoning_output.action.action_type)
        /\ tool_invocations = <<>>
        /\ http_requests = <<>>
        /\ exception = ""
        /\ pc \in {"synthesize", "done"}
        /\ pc = "done" => observation = Observation(TRUE, NullResult, "Error: Unknown action type: " \o reasoning_output.action.action_type)
\* C9, reached: the model named get_weather and the call returned without a tool operation
UnknownToolWasRefused == pc = "done" /\ UnknownActionType /\ action_result.error = "Unknown action type: get_weather" /\ tool_invocations = <<>>

\* the utterances the greeting detector matches
GreetingUtterances == {u \in Utterances : _is_greeting(u)}
\* C10: in a call whose utterance matches a greeting pattern no language-model call is made, no
\* tool operation is invoked and no request is sent, and the call returns the greeting template,
\* whatever other vocabulary the utterance holds.
GreetingAnswersDirectly ==
    user_query \in GreetingUtterances =>
        /\ llm_calls = <<>>
        /\ tool_invocations = <<>>
        /\ http_requests = <<>>
        /\ pc \notin {"synthesize", "except", "raised"}
        /\ pc = "done" => returned = Str(_get_greeting_response(user_query))
\* C10, reached: an utterance with booking vocabulary and a greeting was answered by the template
GreetingWithBookingWordsAnswered == pc = "done" /\ user_query = UGreetBook /\ _is_appointment_query(user_query) /\ returned \in {Str(GreetHello), Str(GreetHowAreYou)} /\ tool_invocations = <<>>

(* ------------------------------------------------------------------ *)
(* Properties of the reasoning step and of the final answer           *)
(* ------------------------------------------------------------------ *)
\* the current call made its language-model call for the reasoning
ConsultedModel == \E i \in 1..Len(llm_calls) : llm_calls[i] = "reasoning"
\* C11: the reasoning step resolves the intent in the order greeting, appointment, specialty,
\* model.  An utterance the greeting detector matches is answered by the greeting template; one
\* it does not match and the appointment detector matches gets the tool of the appointment
\* selector, also when the specialty detector matches it too; one that only the specialty
\* detector matches gets get_doctor_specialties with {"query": utterance}; and the language
\* model is called for the reasoning exactly when no detector matches.
IntentOrder ==
    pc \notin {"idle", "reason"} =>
        /\ _is_greeting(user_query) => ~Truthy(reasoning_output.use_tool) /\ reasoning_output.direct_answer = Str(_get_greeting_response(user_query))
        /\ (~_is_greeting(user_query) /\ _is_appointment_query(user_query)) => Truthy(reasoning_output.use_tool) /\ reasoning_output.action = _select_appointment_tool(user_query)
        /\ (~_is_greeting(user_query) /\ ~_is_appointment_query(user_query) /\ _is_specialty_query(user_query)) => Truthy(reasoning_output.use_tool) /\ reasoning_output.action = Action("get_doctor_specialties", QueryDict(user_query))
        /\ ConsultedModel <=> (~_is_greeting(user_query) /\ ~_is_appointment_query(user_query) /\ ~_is_specialty_query(user_query))
\* C11, reached: an utterance that both the appointment and the specialty detector match was
\* given the appointment selector's tool, without a language-model call
AppointmentWonOverSpecialty == pc = "done" /\ user_query = <<"d","o"," ","y","o","u"," ","h","a","v","e"," ","a"," ","w","a","l","k","-","i","n"," ","d","o","c","t","o","r">> /\ _is_appointment_query(user_query) /\ _is_specialty_query(user_query) /\ tool_invocations = <<"init_appointments">> /\ ~ConsultedModel

\* C12: a call whose decision has out_of_scope true, the parse fallback included, returns the
\* fixed redirect message and invokes no tool.
\* Violated: chat tests direct_answer before out_of_scope (lines 556 and 562); the parse fallback
\* carries both, so the call returns the fallback's own "I'm having trouble ..." text, and a
\* parsed decision with out_of_scope true and a direct_answer returns the model's text.
OutOfScopeGetsTheRedirect == (pc = "done" /\ Truthy(reasoning_output.out_of_scope)) => returned = Str(OutOfScopeMessage) /\ tool_invocations = <<>>

\* the reasoning call of the current call was answered, and its answer holds no decision: it
\* has no text, the text is not JSON, or it is the empty object
AnswerWithoutDecision ==
    /\ ConsultedModel
    /\ llm_responses[1].kind # "raise"
    /\ \/ llm_responses[1].kind # "text"
       \/ json_loads(json_match(llm_responses[1].content)).shape = "error"
       \/ json_loads(json_match(llm_responses[1].content)) = [shape |-> "dict", decision |-> NoDecision]
\* C13: when the model's reasoning output cannot be parsed as a decision, or is an object that
\* lacks the required fields, the decision handed to chat is the out-of-scope decision with a
\* reasoning text.
\* Violated: the parser only adds "reasoning" to the object it parsed, so the empty object (also
\* the default content of a response without choices) comes back as {"reasoning": ...} with no
\* out_of_scope; chat then answers with the generic invitation.
UnparsedBecomesOutOfScope == (pc \notin {"idle", "reason"} /\ AnswerWithoutDecision) => Truthy(reasoning_output.out_of_scope) /\ reasoning_output.reasoning # ABSENT

\* the variants a decision populates
PopulatedVariants(decision) == {v \in {"tool", "direct", "out_of_scope"} : CASE v = "tool" -> Truthy(decision.use_tool) /\ decision.action.shape # "absent" [] v = "direct" -> has_direct_answer(decision) [] OTHER -> Truthy(decision.out_of_scope)}
\* C14: a decision built by the agent's own code (by a heuristic, or as the fallback for a parse
\* failure or a failed language-model call) populates exactly one variant and carries a reasoning.
\* Violated: the parse fallback is built with both out_of_scope True and a direct_answer.
DecisionHasOneVariant == (pc \notin {"idle", "reason"} /\ (~ConsultedModel \/ reasoning_output \in {ParseFallback, LLMFailureDecision})) => Cardinality(PopulatedVariants(reasoning_output)) = 1 /\ reasoning_output.reasoning # ABSENT

\* C15: when no detector matches the utterance and the language-model call of the reasoning step
\* fails, the decision is a direct answer with the fixed generic invitation: nothing raises, no
\* tool operation is invoked, no request is sent, and the call returns that fixed text, which
\* holds nothing of the exception.
FailedReasoningCallInvites ==
    (pc \notin {"idle", "reason"} /\ ConsultedModel /\ llm_responses[1].kind = "raise") =>
        /\ ~Truthy(reasoning_output.use_tool)
        /\ reasoning_output.direct_answer = Str(GenericInvitation)
        /\ reasoning_output.reasoning # ABSENT
        /\ exception = ""
        /\ tool_invocations = <<>>
        /\ http_requests = <<>>
        /\ llm_calls = <<"reasoning">>
        /\ pc \in {"decide", "done"}
        /\ pc = "done" => returned = Str(GenericInvitation)
\* C15, reached: the call for "weather" whose reasoning call failed returned the invitation
InvitationAfterFailedCall == pc = "done" /\ user_query = UWeather /\ llm_responses = <<LLMResponse("raise", <<>>)>> /\ returned = Str(GenericInvitation)

\* the final language-model call of the current call failed after get_doctor_specialties
\* succeeded with a result that holds at least one specialty, and the call has ended
SpecialtyFallbackCase ==
    /\ pc = "done"
    /\ Len(llm_calls) > 0 /\ Last(llm_calls) = "final" /\ Last(llm_responses).kind = "raise"
    /\ tool_invocations = <<"get_doctor_specialties">>
    /\ action_result.success
    /\ action_result.result.kind = "specialties"
    /\ action_result.result.specialties # <<>>
\* the entries of the raw result that the fallback reads: the first five
FirstFive(specialties) == SubSeq(specialties, 1, IF Len(specialties) < 5 THEN Len(specialties) ELSE 5)
ClosingSentences(answer) == IF answer.more > 0 THEN {"and N more."} ELSE {}
CharRank(c) == IF c = " " THEN 0 ELSE CHOOSE i \in 1..26 : UpperLetters[i] = c
RECURSIVE StrLeq(_, _)
StrLeq(a, b) == IF a = <<>> THEN TRUE ELSE IF b = <<>> THEN FALSE ELSE IF Head(a) = Head(b) THEN StrLeq(Tail(a), Tail(b)) ELSE CharRank(Head(a)) < CharRank(Head(b))
\* C18: for "Show me the full list of specialties" the result of the lookup has is_full_list
\* True, and the answer (here the one the agent builds itself, when the final language-model
\* call fails, from entries that all have a DESCRIPTION) names every entry of the result, in
\* alphabetical order.
\* Violated: the fallback names the first five entries only, in the order of the result.
FullListAnswerIsCompleteAndSorted ==
    (user_query = UFullList /\ SpecialtyFallbackCase /\ \A j \in 1..Len(action_result.result.specialties) : action_result.result.specialties[j].shape = "dict") =>
        /\ action_result.result.is_full_list
        /\ Len(returned.items) = Len(action_result.result.specialties)
        /\ \A i \in 1..(Len(returned.items) - 1) : StrLeq(returned.items[i], returned.items[i + 1])

\* the final language-model call of the current call failed after the one tool operation it
\* invoked succeeded, and the call has ended
FallbackCase ==
    /\ pc = "done"
    /\ Len(llm_calls) > 0 /\ Last(llm_calls) = "final" /\ Last(llm_responses).kind = "raise"
    /\ Len(tool_invocations) = 1
    /\ action_result.success
\* the sentence the fallback has for a tool other than get_doctor_specialties
TemplateOf(tool_name) ==
    CASE tool_name = "create_walkin" -> "I've scheduled a walk-in appointment for you. Your appointment has been confirmed."
      [] tool_name = "get_today_appointments" -> "I've retrieved today's appointments. You can view the details in the system."
      [] tool_name = "get_ongoing_visits" -> "I've checked the ongoing visits in the hospital. The information has been retrieved."
      [] tool_name = "get_session_slots" -> "I've found available appointment slots. You can select one for your appointment."
      [] tool_name = "get_appointment_followup" -> "I've checked your follow-up appointments. The information is now available."
      [] tool_name = "get_patient_journey" -> "I've retrieved your patient journey information. You can see your progress."
      [] tool_name = "create_visit" -> "I've created a visit record for your appointment. You're all set."
      [] tool_name = "search_by_id_number" -> "I've found your patient record using your ID number. Your information has been retrieved."
      [] tool_name = "activate_sso" -> "I've activated your SSO account. You can now log in with your credentials."
      [] tool_name = "init_appointments" -> "I processed your request about init appointments. The operation was successful."
      [] tool_name = "get_user_dataset" -> "I processed your request about get user dataset. The operation was successful."
      [] tool_name = "get_appointment_number" -> "I processed your request about get appointment number. The operation was successful."
      [] tool_name = "get_doctor_specialties" -> "I processed your request about get doctor specialties. The operation was successful."
ReadOnlyUtterances == {USpecialties, UCardiologyDoctor, UBookAppointment, UFollowUp, UStatus}
\* the tool and the parameters the heuristics give each of them
SelectionFor(u) ==
    CASE u = UBookAppointment -> Action("get_session_slots", Dict(With(With(With(NoParams, "resource_id", "2"), "session_date", "2025-06-25"), "session_id", "363")))
      [] u = UFollowUp -> Action("get_appointment_followup", Dict(With(With(With(NoParams, "patient_id", "3598"), "date_from", "2025-06-25"), "date_to", "2025-06-25")))
      [] u = UStatus -> Action("get_patient_journey", Dict(With(NoParams, "visit_id", "3502")))
      [] OTHER -> Action("get_doctor_specialties", QueryDict(u))
\* the entries the specialty lookup keeps for each of the two specialty utterances: all of them
\* for the general question, those whose description holds I, NEED, CARDIOLOGY or DOCTOR for the other
LookupFor(u, all_specialties) ==
    IF u = USpecialties THEN all_specialties
    ELSE SelectSeq(all_specialties, LAMBDA s : \E term \in {<<"I">>, <<"N","E","E","D">>, <<"C","A","R","D","I","O","L","O","G","Y">>, <<"D","O","C","T","O","R">>} : Contains(s.DESCRIPTION, term))
\* C20: in every call, whatever the conversation history holds, an utterance that a heuristic
\* sends to a read-only tool gets the same tool with the same parameters, without a call of the
\* language model; and the result of a specialty lookup is determined by the utterance and the
\* entries the endpoint returned (here entries that are dicts).
SameUtteranceSameLookup ==
    (user_query \in ReadOnlyUtterances /\ pc \notin {"idle", "reason"}) =>
        /\ reasoning_output.action = SelectionFor(user_query)
        /\ Truthy(reasoning_output.use_tool)
        /\ ~ConsultedModel
        /\ (pc # "decide" /\ user_query \in {USpecialties, UCardiologyDoctor} /\ http_requests[1].response = "ok" /\ \A j \in 1..Len(http_requests[1].specialties) : http_requests[1].specialties[j].shape # "notdict") =>
            /\ action_result.success
            /\ action_result.result.specialties = LookupFor(user_query, http_requests[1].specialties)
\* C20, reached: the second of two calls with the same specialty utterance, with a history that
\* holds the first, kept the one matching entry of the two the endpoint returned
SecondLookupFilteredAlike == pc = "done" /\ calls = 2 /\ user_query = UCardiologyDoctor /\ history_at_entry # <<>> /\ history_at_entry[1].content = UserText(UCardiologyDoctor) /\ http_requests[1].specialties = <<EDental, ECardiology>> /\ action_result.result.specialties = <<ECardiology>>

(* ------------------------------------------------------------------ *)
(* Properties of the server, the validation tables and the detectors  *)
(* ------------------------------------------------------------------ *)
\* the turns of the history that _construct_reasoning_prompt copies into the prompt, by their
\* place in the history: self.conversation_history[-4:]
_construct_reasoning_prompt(history) == {i \in 1..Len(history) : i > Len(history) - 4}
\* the client whose call appended the i-th turn of the history (two turns per call)
TurnCaller(i) == callers[(i + 1) \div 2]
\* C21: every turn of the history that the agent uses for a call was appended by a call of the
\* same session, and so was every turn copied into the reasoning prompt of the call.
\* Violated: main.py creates one agent at import and both endpoints call agent.chat on it, so
\* the turns of all clients go into one conversation_history, and the prompt built for one
\* client holds the last turns of the other.
SessionsAreIsolated ==
    calls > 0 =>
        /\ \A i \in 1..Len(conversation_history) : TurnCaller(i) = callers[calls]
        /\ (pc = "decide" /\ ConsultedModel) => \A i \in _construct_reasoning_prompt(conversation_history) : TurnCaller(i) = callers[calls]

\* the parameter values a caller can give: no such key, null, the empty string, a text
ProbeValues == {ABSENT, NONE, "", "x"}
\* the dicts that give each required parameter of a tool one of the probe values
ProbeMaps(tool_name) == {[p \in StrParams |-> IF p \in DOMAIN f THEN f[p] ELSE ABSENT] : f \in [Range(required_params(tool_name)) -> ProbeValues]}
\* the validation accepts a dict exactly when the tool has no required parameters or every one
\* of them is a key with a value other than null and the empty string
ValidateIsExact ==
    \A tool_name \in tools \cup {"get_weather"} : \A map \in ProbeMaps(tool_name) :
        validate_parameters(tool_name, map) <=> (required_params(tool_name) = <<>> \/ \A p \in Range(required_params(tool_name)) : map[p] \notin {ABSENT, NONE, ""})
\* C22: validate_parameters is true exactly when the tool declares no required parameters or
\* every required parameter is present with a non-empty value, and every request sent by a tool
\* with required parameters carries a non-empty value for each of them.
RequestsCarryRequiredParameters ==
    /\ ValidateIsExact
    /\ \A i \in 1..Len(http_requests) : \A p \in Range(required_params(http_requests[i].tool)) : http_requests[i].sent[p] \notin {ABSENT, NONE, ""}
\* C22, reached: the model gave get_appointment_followup an empty patient_id, the tool asked for
\* its parameters and sent nothing
BlankParameterStoppedTheRequest ==
    /\ pc = "done" /\ tool_invocations = <<"get_appointment_followup">> /\ http_requests = <<>>
    /\ reasoning_output.action.parameters.map["patient_id"] = ""
    /\ action_result.needs_parameters


\* C23: when create_walkin is invoked with one of resource_id, session_id, session_date,
\* from_time, patient_id absent or empty, the outcome asks for parameters and no request is sent.
\* Violated: the tool asks only for patient_id, resource_id and session_date; an absent
\* session_id or from_time is filled with "363" and "07%3A10%3A00" and the request goes out.
WalkinNeedsAllFive ==
    (/\ tool_invocations = <<"create_walkin">>
     /\ reasoning_output.action.parameters.shape = "mapping"
     /\ \E p \in {"resource_id", "session_id", "session_date", "from_time", "patient_id"} : reasoning_output.action.parameters.map[p] \in {ABSENT, NONE, ""})
    => action_result.needs_parameters /\ http_requests = <<>>

\* C24: when the request of the tool failed in transport and the final language-model call
\* failed too, the answer of the call is the error apology and not a confirmation.
\* Violated: the tool catches the transport error and returns {"error": ...}, _act reports a
\* success, and the fallback of the final reasoning answers with the tool's confirmation.
NoConfirmationAfterFailedRequest ==
    (/\ pc = "done" /\ exception = ""
     /\ Len(llm_calls) > 0 /\ Last(llm_calls) = "final" /\ Last(llm_responses).kind = "raise"
     /\ \E i \in 1..Len(http_requests) : http_requests[i].response = "raise")
    => returned = Str("I'm sorry, I encountered an error while processing your request.")

\* C25: for every action of a decision that reaches the dispatcher, whatever the endpoint does,
\* _act returns an outcome and raises nothing.
\* Violated: _act reads action['action_type'] in its first log line, before its try block, so an
\* action without action_type raises KeyError and an action that is not a mapping TypeError.
DispatcherReturnsAnOutcome ==
    (pc = "decide" /\ Truthy(reasoning_output.use_tool) /\ reasoning_output.action.shape # "absent")
    => \A net \in NetBehaviours : ~_act(reasoning_output.action, net).raised

\* how often x occurs in the sequence s
Count(s, x) == Cardinality({i \in 1..Len(s) : s[i] = x})
\* one call of chat makes at most two language-model calls, each with one request: at most one
\* for the reasoning, and only for an utterance that no detector classifies, and at most one for
\* the final answer, and only when the action did not ask for parameters
GatewayCallsOfOneTurn ==
    /\ Len(llm_calls) <= 2
    /\ Len(llm_responses) = Len(llm_calls)
    /\ Count(llm_calls, "reasoning") <= 1
    /\ Count(llm_calls, "final") <= 1
    /\ \A i \in 1..Len(llm_calls) : llm_calls[i] = "final" => i = Len(llm_calls)
    /\ ConsultedModel => Reasoned(user_query).intent = "llm"
    /\ Count(llm_calls, "final") = 1 => Truthy(reasoning_output.use_tool) /\ ~action_result.needs_parameters
\* C26: the language model is never called again after a failure: a call of chat makes at most
\* one reasoning call, only for an unclassified utterance, and at most one final call, only
\* after the action step returned an outcome that does not ask for parameters, which is the
\* outcome of the one tool that ran or the failure for an unknown action type.
GatewayCalledOncePerPurpose ==
    /\ GatewayCallsOfOneTurn
    /\ Count(llm_calls, "final") = 1 => (Len(tool_invocations) = 1 \/ (tool_invocations = <<>> /\ ~action_result.success /\ reasoning_output.action.action_type \notin tools))
\* C26 as stated: the final call is made only after a tool ran.  Violated: for an unknown action
\* type no tool runs, and the final call is still made, on the observation "Error: Unknown
\* action type: ...".
FinalCallOnlyAfterAToolRan ==
    /\ GatewayCallsOfOneTurn
    /\ Count(llm_calls, "final") = 1 => Len(tool_invocations) = 1
\* C26, reached: both calls were made, the final one failed and was not repeated, and the turn
\* ended with the fallback answer; no tool had run
FailedFinalCallNotRepeated ==
    /\ pc = "done" /\ llm_calls = <<"reasoning", "final">> /\ Last(llm_responses).kind = "raise"
    /\ tool_invocations = <<>>

\* the first balanced JSON object of a text: from its first "{" to the "}" that closes it (the
\* braces nested in an object are inside its body)
FirstJsonObject(content) ==
    LET first == CHOOSE i \in 1..Len(content) : content[i] = "{" /\ \A k \in 1..(i - 1) : content[k] # "{"
        close == CHOOSE j \in (first + 1)..Len(content) : content[j] = "}" /\ \A k \in (first + 1)..(j - 1) : content[k] # "}"
    IN SubSeq(content, first, close)
\* the text holds a JSON object that is a decision, whatever stands before and after it
HoldsADecision(content) ==
    /\ \E i \in 1..Len(content) : content[i] = "{" /\ \E j \in (i + 1)..Len(content) : content[j] = "}"
    /\ json_loads(FirstJsonObject(content)).shape = "dict"
\* C27: when the text of the model holds a JSON object that is a decision, the parsed decision
\* is the first balanced object of the text, whatever text and braces follow it.
\* Violated: the pattern \{.*\} with DOTALL is greedy and takes the text from the first "{" to
\* the last "}"; with a second object or a later brace that text is not JSON and the parser
\* returns its fallback decision.
ParserTakesFirstObject ==
    (pc = "decide" /\ ConsultedModel /\ Last(llm_responses).kind = "text" /\ HoldsADecision(Last(llm_responses).content))
    => [reasoning_output EXCEPT !.reasoning = ""] = [json_loads(FirstJsonObject(Last(llm_responses).content)).decision EXCEPT !.reasoning = ""]

\* C28: no utterance is matched by both the appointment detector and the specialty detector.
\* Violated: the specialty detector rejects only utterances that hold "book", "schedule",
\* "appointment", "slot", "visit" or "time"; "do you have a walk-in doctor" holds none of them,
\* the appointment detector matches its "walk-in" and the specialty detector its "doctor".
DetectorsAreDisjoint == pc # "idle" => ~(_is_appointment_query(user_query) /\ _is_specialty_query(user_query))

\* the interrogative and request markers of the specialty detector
MarkerWords == {<<"w","h","a","t">>, <<"w","h","i","c","h">>, <<"w","h","e","r","e">>, <<"h","o","w">>, <<"w","h","e","n">>, <<"d","o">>, <<"d","o","e","s">>, <<"a","r","e">>, <<"c","a","n">>, <<"h","a","v","e">>, <<"t","e","l","l">>, <<"i","n","f","o","r","m">>}
\* the utterance holds a specialty keyword, matches none of the detector's patterns and has
\* none of the markers among its words
IncidentalMention(query) ==
    /\ \E k \in Range(specialty_keywords) : Contains(lower(query), k)
    /\ ~full_list_patterns(lower(query)) /\ ~specialty_patterns(lower(query))
    /\ Range(split(lower(query))) \cap MarkerWords = {}
\* C29: an utterance that holds a specialty keyword, matches no pattern and has no marker as a
\* word is rejected by the specialty detector, and the heuristics do not send it to the
\* specialty tool.
\* Violated: the markers are looked for as substrings (`word in query_lower`), and "doctor"
\* itself holds the marker "do", so every utterance with the keyword "doctor" passes.
IncidentalMentionRejected ==
    (pc # "idle" /\ IncidentalMention(user_query))
    => /\ ~_is_specialty_query(user_query)
       /\ ~ConsultedModel => tool_invocations # <<"get_doctor_specialties">>

\* C30: for every tool with required parameters, the required_parameters of the descriptor that
\* get_parameter_requirements returns, which is shown when the tool asks for parameters, are the
\* parameters that validate_parameters checks.
\* Violated: the descriptor of create_walkin lists patient_id, resource_id and session_date and
\* names session_id and from_time as optional; validate_parameters checks all five.
ParameterTablesAgree ==
    \A tool_name \in ToolsWithRequirements :
        (tool_invocations = <<tool_name>> /\ action_result.needs_parameters /\ action_result.parameter_requirements.kind = "requirements")
        => Range(RequirementTable(tool_name).required_parameters) = Range(required_params(tool_name))
====
